---- MODULE Spec2Model ----
(***************************************************************************)
(* TokenFaucet (backend/contracts/TokenFaucet.sol) over the SimpleToken    *)
(* ledger: the rate-limited request path, the administrative operations    *)
(* and the custody operations, one action per external function.  Every    *)
(* action is one transaction: it either commits the writes of the whole    *)
(* call and its event log, or reverts to the state before the call.        *)
(***************************************************************************)
EXTENDS Integers, Sequences, FiniteSets, TLC

\* ------------------------------------------------------------------ bounds
\* Largest value of the unsigned integer type (type(uint256).max), scaled.
UINT_MAX == 1000000
\* block.timestamp of the constructor's block.
StartTime == 100000
\* Seconds by which one step of time advances block.timestamp.
TimeStep == 43200
\* Number of time steps of a run.
MaxTicks == 2
\* Tokens minted to the deployer by the token's constructor.
InitialSupply == 2
\* The supply cap of the token the faucet pays from.
TokenCap == 4

\* ------------------------------------------------------- program constants
\* `1 days`
DAY == 86400

\* ---------------------------------------------------------------- addresses
ZERO == "0x0"             \* address(0)
FAUCET == "faucet"        \* address(this)
TOKEN == "token"          \* address(token)
Deployer == "owner"       \* msg.sender of both constructors
EOA == {"owner", "user1"}               \* externally owned accounts
Relay == "relay"          \* a contract that forwards calls
Holders == EOA \cup {FAUCET, Relay}     \* addresses with a ledger balance
Accounts == EOA \cup {Relay}            \* addresses with a user record

\* ------------------------------------------------------------ input domains
Requesters == {"user1", Relay}                \* msg.sender of requestTokens
Senders == {"owner", "user1"}                 \* msg.sender of the other functions
BlacklistTargets == {ZERO, "user1"}
\* Arguments tokenAddress of the constructor and of emergencyWithdraw.
LedgerInputs == {ZERO, TOKEN}
\* Arguments of the constructor and of configureFaucet, as
\* <<tokensPerRequest_, cooldownTime_, maxTokensPerAddress_, dailyLimit_>>:
\* accepted ones (a cooldown of zero, of one time step and of the largest
\* value; each limit at and above the payout), and one failing each require.
ConfigInputs ==
    {<<1, 0, 2, 2>>, <<1, TimeStep, 1, 2>>, <<1, 0, 2, 1>>,
     <<2, TimeStep, 2, 2>>, <<1, UINT_MAX, 2, 2>>,
     <<0, 0, 1, 1>>, <<2, 0, 1, 2>>, <<2, 0, 2, 1>>}
\* Arguments of configureFaucet at the upper end of the unsigned range: a
\* payout and limits of the largest value.
ExtremeConfigInputs == {<<UINT_MAX, 0, UINT_MAX, UINT_MAX>>}
TransferAmounts == {0, 1, 2, UINT_MAX}
\* Arguments of batchDistribute, as <<recipients, amounts>>.
BatchInputs ==
    {<< <<>>, <<>> >>, << <<"user1">>, <<1, 1>> >>, << <<"user1">>, <<1>> >>,
     << <<"user1", "owner">>, <<1, 1>> >>, << <<"user1", "owner">>, <<2, 1>> >>,
     << <<"user1", ZERO>>, <<1, 1>> >>, << <<"user1", "owner">>, <<1, 0>> >>,
     << <<"user1", "owner">>, <<UINT_MAX, 1>> >>}

VARIABLES
    tokensPerRequest, cooldownTime, maxTokensPerAddress, dailyLimit,
    totalDistributedToday, lastResetTime,
    lastRequestTime, totalTokensReceived, blacklisted,
    paused,          \* Pausable._paused
    owner,           \* Ownable._owner
    balances,        \* ERC20._balances of the token
    allowance,       \* ERC20._allowances[holder][address(this)]
    totalSupply,     \* ERC20._totalSupply of the token
    cap,             \* SimpleToken.cap
    tokenOwner,      \* Ownable._owner of the token
    tokenPaused,     \* Pausable._paused of the token
    now,             \* block.timestamp
    last,            \* the last transaction: function, msg.sender, outcome
    logs,            \* the events emitted by the last transaction
    returned         \* the values the last call returned (<<>>: none)

storage == <<tokensPerRequest, cooldownTime, maxTokensPerAddress, dailyLimit,
             totalDistributedToday, lastResetTime, lastRequestTime,
             totalTokensReceived, blacklisted, paused, owner, balances, allowance,
             totalSupply, cap, tokenOwner, tokenPaused>>
vars == <<tokensPerRequest, cooldownTime, maxTokensPerAddress, dailyLimit,
          totalDistributedToday, lastResetTime, lastRequestTime,
          totalTokensReceived, blacklisted, paused, owner, balances, allowance,
          totalSupply, cap, tokenOwner, tokenPaused,
          now, last, logs, returned>>

\* The contract and ledger storage as one value, threaded through a call.
\* entered is the status of the ReentrancyGuard (_status == ENTERED): it is
\* set only while a nonReentrant function runs, so it is FALSE in the storage
\* between two transactions.
World ==
    [tokensPerRequest |-> tokensPerRequest, cooldownTime |-> cooldownTime,
     maxTokensPerAddress |-> maxTokensPerAddress, dailyLimit |-> dailyLimit,
     totalDistributedToday |-> totalDistributedToday,
     lastResetTime |-> lastResetTime, lastRequestTime |-> lastRequestTime,
     totalTokensReceived |-> totalTokensReceived, blacklisted |-> blacklisted,
     paused |-> paused, owner |-> owner, balances |-> balances,
     allowance |-> allowance, totalSupply |-> totalSupply, cap |-> cap,
     tokenOwner |-> tokenOwner, tokenPaused |-> tokenPaused,
     entered |-> FALSE]

\* ------------------------------------------------------ checked arithmetic
\* Faulty variant: unchecked arithmetic, no addition ever reverts.
Overflows_Never(a, b) == FALSE

\* Solidity 0.8 reverts with Panic(0x11) when a + b leaves the unsigned range.
Overflows(a, b) == a > UINT_MAX - b

\* ------------------------------------------------------ transaction results
\* Faulty variant: the writes made before the failing require stay.
Revert_KeepsWrites(pre, cur) == cur

\* A revert discards every write and every event of the call.
Revert(pre, cur) == pre

Ok(w, evs) == [outcome |-> "ok", w |-> w, logs |-> evs]
Fail(kind, pre, cur) == [outcome |-> kind, w |-> Revert(pre, cur), logs |-> <<>>]

\* ------------------------------------------------------------------ events
TokensRequested(user, amount, timestamp) == <<"TokensRequested", user, amount, timestamp>>
TokensDeposited(depositor, amount) == <<"TokensDeposited", depositor, amount>>
TokensWithdrawn(to, amount) == <<"TokensWithdrawn", to, amount>>
FaucetConfigured(tpr, cd, mx, dl) == <<"FaucetConfigured", tpr, cd, mx, dl>>
UserBlacklisted(user, status) == <<"UserBlacklisted", user, status>>
DailyLimitReset(newDay, totalDistributed) == <<"DailyLimitReset", newDay, totalDistributed>>
EmergencyWithdraw(tokenAddress, amount) == <<"EmergencyWithdraw", tokenAddress, amount>>

\* ------------------------------------------------------------ token ledger
\* Faulty variant: the recipient credited without the faucet debited.
safeTransfer_NoDebit(w, to, value) ==
    IF w.tokenPaused \/ to = ZERO \/ w.balances[FAUCET] < value
    THEN [ok |-> FALSE, w |-> w]
    ELSE [ok |-> TRUE,
          w |-> [w EXCEPT !.balances =
                    [h \in Holders |->
                        IF h = to /\ h # FAUCET THEN w.balances[h] + value
                        ELSE w.balances[h]]]]

\* ERC20.transfer as called through SafeERC20.safeTransfer from the faucet.
\* ok = FALSE stands for the revert of the token (paused, invalid receiver,
\* insufficient balance).
safeTransfer(w, to, value) ==
    IF w.tokenPaused \/ to = ZERO \/ w.balances[FAUCET] < value
    THEN [ok |-> FALSE, w |-> w]
    ELSE [ok |-> TRUE,
          w |-> [w EXCEPT !.balances =
                    [h \in Holders |->
                        IF h = FAUCET /\ h = to THEN w.balances[h]
                        ELSE IF h = FAUCET THEN w.balances[h] - value
                        ELSE IF h = to THEN w.balances[h] + value
                        ELSE w.balances[h]]]]

\* ERC20.transferFrom(from, address(this), value) with the faucet as spender:
\* an allowance of type(uint256).max is not spent.
safeTransferFrom(w, from, value) ==
    IF w.tokenPaused \/ w.allowance[from] < value \/ w.balances[from] < value
    THEN [ok |-> FALSE, w |-> w]
    ELSE [ok |-> TRUE,
          w |-> [w EXCEPT
                    !.allowance[from] = IF @ = UINT_MAX THEN @ ELSE @ - value,
                    !.balances = [h \in Holders |->
                        IF h = FAUCET THEN w.balances[h] + value
                        ELSE IF h = from THEN w.balances[h] - value
                        ELSE w.balances[h]]]]

\* ------------------------------------------------------------- SimpleToken
\* The events of the token: ERC20.Transfer and SimpleToken.Mint.
Transfer(from, to, value) == <<"Transfer", from, to, value>>
Mint(to, amount) == <<"Mint", to, amount>>

\* Ownable.onlyOwner of the token.
tokenOnlyOwner(w, sender) == sender = w.tokenOwner

\* Faulty variant: the override that leaves ERC20Pausable out, so that
\* balances move while the token is paused.
_update_NotPausable(w, from, to, value) ==
    IF from = ZERO /\ Overflows(w.totalSupply, value) THEN [outcome |-> "Panic", w |-> w]
    ELSE IF from # ZERO /\ w.balances[from] < value
         THEN [outcome |-> "InsufficientBalance", w |-> w]
    ELSE LET w1 == IF from = ZERO
                   THEN [w EXCEPT !.totalSupply = @ + value]
                   ELSE [w EXCEPT !.balances[from] = @ - value]
             w2 == IF to = ZERO
                   THEN [w1 EXCEPT !.totalSupply = @ - value]
                   ELSE [w1 EXCEPT !.balances[to] = @ + value]
         IN [outcome |-> "ok", w |-> w2]

\* _update(from, to, value): ERC20Pausable._update (whenNotPaused), then
\* ERC20._update: a mint when from is the zero address, a burn when to is.
_update(w, from, to, value) ==
    IF w.tokenPaused THEN [outcome |-> "EnforcedPause", w |-> w]
    ELSE IF from = ZERO /\ Overflows(w.totalSupply, value)
         THEN [outcome |-> "Panic", w |-> w]
    ELSE IF from # ZERO /\ w.balances[from] < value
         THEN [outcome |-> "InsufficientBalance", w |-> w]
    ELSE LET w1 == IF from = ZERO
                   THEN [w EXCEPT !.totalSupply = @ + value]
                   ELSE [w EXCEPT !.balances[from] = @ - value]
             w2 == IF to = ZERO
                   THEN [w1 EXCEPT !.totalSupply = @ - value]
                   ELSE [w1 EXCEPT !.balances[to] = @ + value]
         IN [outcome |-> "ok", w |-> w2]

\* ERC20._mint(account, value).
_mint(w, account, value) ==
    IF account = ZERO THEN [outcome |-> "InvalidReceiver", w |-> w]
    ELSE _update(w, ZERO, account, value)

\* constructor(name_, symbol_, initialSupply_, cap_) Ownable(msg.sender).
tokenConstructorCall(w, sender, initialSupply_, cap_) ==
    IF ~(cap_ > 0) THEN Fail("CapZero", w, w)
    ELSE IF ~(initialSupply_ <= cap_) THEN Fail("InitialSupplyExceedsCap", w, w)
    ELSE LET w1 == [w EXCEPT !.tokenOwner = sender, !.cap = cap_] IN
    IF initialSupply_ > 0
    THEN LET x == _mint(w1, sender, initialSupply_) IN
         IF x.outcome # "ok" THEN Fail(x.outcome, w, w1)
         ELSE Ok(x.w, <<Transfer(ZERO, sender, initialSupply_)>>)
    ELSE Ok(w1, <<>>)

\* Faulty variant: the cap compared with the amount alone.
mintCall_AmountOnly(w, sender, to, amount) ==
    IF ~tokenOnlyOwner(w, sender) THEN Fail("Unauthorized", w, w)
    ELSE IF to = ZERO THEN Fail("MintToZeroAddress", w, w)
    ELSE IF ~(amount <= w.cap) THEN Fail("CapExceeded", w, w)
    ELSE LET x == _mint(w, to, amount) IN
    IF x.outcome # "ok" THEN Fail(x.outcome, w, w)
    ELSE Ok(x.w, <<Transfer(ZERO, to, amount), Mint(to, amount)>>)

\* Faulty variant: mint open to every caller.
mintCall_Anyone(w, sender, to, amount) ==
    IF to = ZERO THEN Fail("MintToZeroAddress", w, w)
    ELSE IF Overflows(w.totalSupply, amount) THEN Fail("Panic", w, w)
    ELSE IF ~(w.totalSupply + amount <= w.cap) THEN Fail("CapExceeded", w, w)
    ELSE LET x == _mint(w, to, amount) IN
    IF x.outcome # "ok" THEN Fail(x.outcome, w, w)
    ELSE Ok(x.w, <<Transfer(ZERO, to, amount), Mint(to, amount)>>)

\* mint(to, amount) onlyOwner nonReentrant.
mintCall(w, sender, to, amount) ==
    IF ~tokenOnlyOwner(w, sender) THEN Fail("Unauthorized", w, w)
    ELSE IF to = ZERO THEN Fail("MintToZeroAddress", w, w)
    ELSE IF Overflows(w.totalSupply, amount) THEN Fail("Panic", w, w)
    ELSE IF ~(w.totalSupply + amount <= w.cap) THEN Fail("CapExceeded", w, w)
    ELSE LET x == _mint(w, to, amount) IN
    IF x.outcome # "ok" THEN Fail(x.outcome, w, w)
    ELSE Ok(x.w, <<Transfer(ZERO, to, amount), Mint(to, amount)>>)

\* The first loop of batchMint: totalAmount += amounts[i], checked.  The
\* sum, or -1 when an addition overflows.
RECURSIVE MintTotal(_, _, _)
MintTotal(amounts, i, totalAmount) ==
    IF i > Len(amounts) THEN totalAmount
    ELSE IF Overflows(totalAmount, amounts[i]) THEN -1
    ELSE MintTotal(amounts, i + 1, totalAmount + amounts[i])

\* The second loop of batchMint from entry i on; pre is the storage before
\* the call, w the storage and evs the events so far.
RECURSIVE MintLoop(_, _, _, _, _, _)
MintLoop(pre, w, recipients, amounts, i, evs) ==
    IF i > Len(recipients) THEN Ok(w, evs)
    ELSE IF recipients[i] = ZERO THEN Fail("MintToZeroAddress", pre, w)
    ELSE LET x == _mint(w, recipients[i], amounts[i]) IN
    IF x.outcome # "ok" THEN Fail(x.outcome, pre, w)
    ELSE MintLoop(pre, x.w, recipients, amounts, i + 1,
                  evs \o <<Transfer(ZERO, recipients[i], amounts[i]),
                           Mint(recipients[i], amounts[i])>>)

\* Faulty variant: a zero recipient ends the batch, the earlier entries kept.
batchMintCall_StopsAtZero(w, sender, recipients, amounts) ==
    IF ~tokenOnlyOwner(w, sender) THEN Fail("Unauthorized", w, w)
    ELSE IF Len(recipients) # Len(amounts) THEN Fail("LengthMismatch", w, w)
    ELSE IF ~(Len(recipients) > 0) THEN Fail("EmptyInput", w, w)
    ELSE LET totalAmount == MintTotal(amounts, 1, 0) IN
    IF totalAmount = -1 THEN Fail("Panic", w, w)
    ELSE IF Overflows(w.totalSupply, totalAmount) THEN Fail("Panic", w, w)
    ELSE IF ~(w.totalSupply + totalAmount <= w.cap) THEN Fail("CapExceeded", w, w)
    ELSE LET r == MintLoop(w, w, recipients, amounts, 1, <<>>) IN
    IF r.outcome = "MintToZeroAddress" /\ recipients[1] # ZERO
    THEN [outcome |-> r.outcome, w |-> _mint(w, recipients[1], amounts[1]).w,
          logs |-> <<>>]
    ELSE r

\* batchMint(recipients, amounts) onlyOwner nonReentrant.
batchMintCall(w, sender, recipients, amounts) ==
    IF ~tokenOnlyOwner(w, sender) THEN Fail("Unauthorized", w, w)
    ELSE IF Len(recipients) # Len(amounts) THEN Fail("LengthMismatch", w, w)
    ELSE IF ~(Len(recipients) > 0) THEN Fail("EmptyInput", w, w)
    ELSE LET totalAmount == MintTotal(amounts, 1, 0) IN
    IF totalAmount = -1 THEN Fail("Panic", w, w)
    ELSE IF Overflows(w.totalSupply, totalAmount) THEN Fail("Panic", w, w)
    ELSE IF ~(w.totalSupply + totalAmount <= w.cap) THEN Fail("CapExceeded", w, w)
    ELSE MintLoop(w, w, recipients, amounts, 1, <<>>)

\* ERC20Burnable.burn(value): _burn(msg.sender, value).
burnCall(w, sender, value) ==
    LET x == _update(w, sender, ZERO, value) IN
    IF x.outcome # "ok" THEN Fail(x.outcome, w, w)
    ELSE Ok(x.w, <<Transfer(sender, ZERO, value)>>)

\* ERC20.transfer(to, value) called by sender.
tokenTransferCall(w, sender, to, value) ==
    IF to = ZERO THEN Fail("InvalidReceiver", w, w)
    ELSE LET x == _update(w, sender, to, value) IN
    IF x.outcome # "ok" THEN Fail(x.outcome, w, w)
    ELSE Ok(x.w, <<Transfer(sender, to, value)>>)

\* pause() onlyOwner; Pausable._pause is whenNotPaused.
tokenPauseCall(w, sender) ==
    IF ~tokenOnlyOwner(w, sender) THEN Fail("Unauthorized", w, w)
    ELSE IF w.tokenPaused THEN Fail("EnforcedPause", w, w)
    ELSE Ok([w EXCEPT !.tokenPaused = TRUE], <<<<"Paused", sender>>>>)

\* unpause() onlyOwner; Pausable._unpause is whenPaused.
tokenUnpauseCall(w, sender) ==
    IF ~tokenOnlyOwner(w, sender) THEN Fail("Unauthorized", w, w)
    ELSE IF ~w.tokenPaused THEN Fail("ExpectedPause", w, w)
    ELSE Ok([w EXCEPT !.tokenPaused = FALSE], <<<<"Unpaused", sender>>>>)

\* ---------------------------------------------------------------- modifiers
\* Faulty variant: the modifier left off.
onlyOwner_Anyone(w, sender) == TRUE

\* Ownable.onlyOwner: msg.sender is the owner.
onlyOwner(w, sender) == sender = w.owner

\* Faulty variant: the guard left off.
nonReentrant_Off(w) == TRUE

\* ReentrancyGuard.nonReentrant: no nonReentrant function of the contract is
\* running.
nonReentrant(w) == ~w.entered

\* Faulty variant: the modifier left off.
whenNotPaused_Off(w) == TRUE

\* Pausable.whenNotPaused.
whenNotPaused(w) == ~w.paused

\* ----------------------------------------------------------------- requires
\* Faulty variant: the blacklist not consulted.
NotBlacklisted_Ignored(w, user) == TRUE

\* "user is blacklisted".
NotBlacklisted(w, user) == ~w.blacklisted[user]

\* Faulty variant: the first second after the cooldown still refused.
CooldownMet_Strict(w, user, t) == t > w.lastRequestTime[user] + w.cooldownTime

\* "cooldown period not met": block.timestamp >= lastRequestTime[user] + cooldownTime.
CooldownMet(w, user, t) == t >= w.lastRequestTime[user] + w.cooldownTime

\* Faulty variant: the lifetime total compared without the payout added.
UnderAddressCap_NoPayout(w, user) ==
    w.totalTokensReceived[user] <= w.maxTokensPerAddress

\* Faulty variant: a lifetime total that would reach the cap refused.
UnderAddressCap_Below(w, user) ==
    w.totalTokensReceived[user] + w.tokensPerRequest < w.maxTokensPerAddress

\* "max tokens per address exceeded".
UnderAddressCap(w, user) ==
    w.totalTokensReceived[user] + w.tokensPerRequest <= w.maxTokensPerAddress

\* Faulty variant: the daily total compared without the payout added.
UnderDailyLimit_NoPayout(w) == w.totalDistributedToday <= w.dailyLimit

\* "daily limit exceeded".
UnderDailyLimit(w) == w.totalDistributedToday + w.tokensPerRequest <= w.dailyLimit

\* "insufficient faucet balance" of requestTokens.
FaucetFunded(w) == w.balances[FAUCET] >= w.tokensPerRequest

\* Faulty variant: the reset one second late.
ResetDue_Late(w, t) == t > w.lastResetTime + DAY

\* block.timestamp >= lastResetTime + 1 days.
ResetDue(w, t) == t >= w.lastResetTime + DAY

\* ------------------------------------------------------- internal functions
\* Faulty variant: the lifetime cap examined before the cooldown.
_validateRequest_CapFirst(w, user, origin, t) ==
    IF user # origin THEN "CallerNotOriginator"
    ELSE IF ~NotBlacklisted(w, user) THEN "Blacklisted"
    ELSE IF Overflows(w.totalTokensReceived[user], w.tokensPerRequest) THEN "Panic"
    ELSE IF ~UnderAddressCap(w, user) THEN "PerAddressCapExceeded"
    ELSE IF Overflows(w.lastRequestTime[user], w.cooldownTime) THEN "Panic"
    ELSE IF ~CooldownMet(w, user, t) THEN "CooldownActive"
    ELSE "ok"

\* _validateRequest(user): "ok", or the failure of the first require that fails.
\* origin is tx.origin of the transaction.
_validateRequest(w, user, origin, t) ==
    IF user # origin THEN "CallerNotOriginator"
    ELSE IF ~NotBlacklisted(w, user) THEN "Blacklisted"
    ELSE IF Overflows(w.lastRequestTime[user], w.cooldownTime) THEN "Panic"
    ELSE IF ~CooldownMet(w, user, t) THEN "CooldownActive"
    ELSE IF Overflows(w.totalTokensReceived[user], w.tokensPerRequest) THEN "Panic"
    ELSE IF ~UnderAddressCap(w, user) THEN "PerAddressCapExceeded"
    ELSE "ok"

\* Faulty variant: the epoch restarted with the total kept.
_resetDailyLimit_KeepsTotal(w, t) ==
    [w |-> [w EXCEPT !.lastResetTime = t],
     logs |-> <<DailyLimitReset(t, w.totalDistributedToday)>>]

\* _resetDailyLimit(): the storage after the reset and the event it emits.
_resetDailyLimit(w, t) ==
    [w |-> [w EXCEPT !.totalDistributedToday = 0, !.lastResetTime = t],
     logs |-> <<DailyLimitReset(t, w.totalDistributedToday)>>]

\* Faulty variant: no implicit reset.
_resetDailyLimitIfNeeded_Off(w, t) == [w |-> w, logs |-> <<>>]

\* _resetDailyLimitIfNeeded().  lastResetTime + 1 days stays far below
\* UINT_MAX for every block.timestamp of a run.
_resetDailyLimitIfNeeded(w, t) ==
    IF ResetDue(w, t) THEN _resetDailyLimit(w, t)
    ELSE [w |-> w, logs |-> <<>>]

\* ------------------------------------------------------- external functions
\* Faulty variant: the daily total left out of the update.
UpdateUserRecords_NoDaily(w, user, t) ==
    [w EXCEPT !.lastRequestTime[user] = t,
              !.totalTokensReceived[user] = @ + w.tokensPerRequest]

\* Faulty variant: the time of the request stamped on every account.
UpdateUserRecords_AllUsers(w, user, t) ==
    [w EXCEPT !.lastRequestTime = [a \in Accounts |-> t],
              !.totalTokensReceived[user] = @ + w.tokensPerRequest,
              !.totalDistributedToday = @ + w.tokensPerRequest]

\* The writes of requestTokens after its requires ("Update user records").
UpdateUserRecords(w, user, t) ==
    [w EXCEPT !.lastRequestTime[user] = t,
              !.totalTokensReceived[user] = @ + w.tokensPerRequest,
              !.totalDistributedToday = @ + w.tokensPerRequest]

\* Faulty variant: the balance check leaves the implicit reset in place.
requestTokensCall_ResetKept(w, user, origin, t) ==
    IF ~nonReentrant(w) THEN Fail("ReentrantCall", w, w)
    ELSE IF ~whenNotPaused(w) THEN Fail("Paused", w, w)
    ELSE LET v == _validateRequest(w, user, origin, t) IN
    IF v # "ok" THEN Fail(v, w, w)
    ELSE LET r == _resetDailyLimitIfNeeded(w, t)
             w1 == r.w
         IN
    IF Overflows(w1.totalDistributedToday, w1.tokensPerRequest) THEN Fail("Panic", w, w1)
    ELSE IF ~UnderDailyLimit(w1) THEN Fail("DailyCapExceeded", w, w1)
    ELSE IF ~FaucetFunded(w1)
         THEN [outcome |-> "InsufficientFaucetBalance", w |-> w1, logs |-> r.logs]
    ELSE LET w2 == UpdateUserRecords(w1, user, t)
             x == safeTransfer(w2, user, w2.tokensPerRequest)
         IN
    IF ~x.ok THEN Fail("LedgerTransferFailed", w, w2)
    ELSE Ok(x.w, r.logs \o <<TokensRequested(user, w2.tokensPerRequest, t)>>)

\* Faulty variant: the result of the transfer not examined.
requestTokensCall_UncheckedTransfer(w, user, origin, t) ==
    IF ~nonReentrant(w) THEN Fail("ReentrantCall", w, w)
    ELSE IF ~whenNotPaused(w) THEN Fail("Paused", w, w)
    ELSE LET v == _validateRequest(w, user, origin, t) IN
    IF v # "ok" THEN Fail(v, w, w)
    ELSE LET r == _resetDailyLimitIfNeeded(w, t)
             w1 == r.w
         IN
    IF Overflows(w1.totalDistributedToday, w1.tokensPerRequest) THEN Fail("Panic", w, w1)
    ELSE IF ~UnderDailyLimit(w1) THEN Fail("DailyCapExceeded", w, w1)
    ELSE IF ~FaucetFunded(w1) THEN Fail("InsufficientFaucetBalance", w, w1)
    ELSE LET w2 == UpdateUserRecords(w1, user, t)
             x == safeTransfer(w2, user, w2.tokensPerRequest)
         IN Ok(x.w, r.logs \o <<TokensRequested(user, w2.tokensPerRequest, t)>>)

\* Faulty variant: the record of the request emitted before that of the reset.
requestTokensCall_RequestFirst(w, user, origin, t) ==
    IF ~nonReentrant(w) THEN Fail("ReentrantCall", w, w)
    ELSE IF ~whenNotPaused(w) THEN Fail("Paused", w, w)
    ELSE LET v == _validateRequest(w, user, origin, t) IN
    IF v # "ok" THEN Fail(v, w, w)
    ELSE LET r == _resetDailyLimitIfNeeded(w, t)
             w1 == r.w
         IN
    IF Overflows(w1.totalDistributedToday, w1.tokensPerRequest) THEN Fail("Panic", w, w1)
    ELSE IF ~UnderDailyLimit(w1) THEN Fail("DailyCapExceeded", w, w1)
    ELSE IF ~FaucetFunded(w1) THEN Fail("InsufficientFaucetBalance", w, w1)
    ELSE LET w2 == UpdateUserRecords(w1, user, t)
             x == safeTransfer(w2, user, w2.tokensPerRequest)
         IN
    IF ~x.ok THEN Fail("LedgerTransferFailed", w, w2)
    ELSE Ok(x.w, <<TokensRequested(user, w2.tokensPerRequest, t)>> \o r.logs)

\* requestTokens() nonReentrant whenNotPaused, called by user at time t.
requestTokensCall(w, user, origin, t) ==
    IF ~nonReentrant(w) THEN Fail("ReentrantCall", w, w)
    ELSE IF ~whenNotPaused(w) THEN Fail("Paused", w, w)
    ELSE LET v == _validateRequest(w, user, origin, t) IN
    IF v # "ok" THEN Fail(v, w, w)
    ELSE LET r == _resetDailyLimitIfNeeded(w, t)
             w1 == r.w
         IN
    IF Overflows(w1.totalDistributedToday, w1.tokensPerRequest) THEN Fail("Panic", w, w1)
    ELSE IF ~UnderDailyLimit(w1) THEN Fail("DailyCapExceeded", w, w1)
    ELSE IF ~FaucetFunded(w1) THEN Fail("InsufficientFaucetBalance", w, w1)
    ELSE LET w2 == UpdateUserRecords(w1, user, t)
             x == safeTransfer(w2, user, w2.tokensPerRequest)
         IN
    IF ~x.ok THEN Fail("LedgerTransferFailed", w, w2)
    ELSE Ok(x.w, r.logs \o <<TokensRequested(user, w2.tokensPerRequest, t)>>)

\* Faulty variant: only the first amount counted.
SumAmounts_FirstOnly(amounts, i, totalAmount) ==
    IF Len(amounts) = 0 THEN 0 ELSE amounts[1]

\* The first loop of batchDistribute: totalAmount += amounts[i], checked.
\* The sum, or -1 when an addition overflows.
RECURSIVE SumAmounts(_, _, _)
SumAmounts(amounts, i, totalAmount) ==
    IF i > Len(amounts) THEN totalAmount
    ELSE IF Overflows(totalAmount, amounts[i]) THEN -1
    ELSE SumAmounts(amounts, i + 1, totalAmount + amounts[i])

\* The second loop of batchDistribute from entry i on; pre is the storage
\* before the call, w the storage and evs the events so far.
RECURSIVE DistributeLoop(_, _, _, _, _, _, _)
DistributeLoop(pre, w, recipients, amounts, i, evs, t) ==
    IF i > Len(recipients) THEN Ok(w, evs)
    ELSE IF recipients[i] = ZERO THEN Fail("InvalidRecipient", pre, w)
    ELSE IF ~(amounts[i] > 0) THEN Fail("InvalidAmount", pre, w)
    ELSE LET x == safeTransfer(w, recipients[i], amounts[i]) IN
    IF ~x.ok THEN Fail("LedgerTransferFailed", pre, w)
    ELSE DistributeLoop(pre, x.w, recipients, amounts, i + 1,
                        Append(evs, TokensRequested(recipients[i], amounts[i], t)), t)

\* Faulty variant: batchDistribute made whenNotPaused.
batchDistributeCall_WhenNotPaused(w, sender, recipients, amounts, t) ==
    IF ~onlyOwner(w, sender) THEN Fail("Unauthorized", w, w)
    ELSE IF ~nonReentrant(w) THEN Fail("ReentrantCall", w, w)
    ELSE IF ~whenNotPaused(w) THEN Fail("Paused", w, w)
    ELSE IF Len(recipients) # Len(amounts) THEN Fail("LengthMismatch", w, w)
    ELSE IF ~(Len(recipients) > 0) THEN Fail("EmptyInput", w, w)
    ELSE LET totalAmount == SumAmounts(amounts, 1, 0) IN
    IF totalAmount = -1 THEN Fail("Panic", w, w)
    ELSE IF ~(w.balances[FAUCET] >= totalAmount) THEN Fail("InsufficientFaucetBalance", w, w)
    ELSE DistributeLoop(w, w, recipients, amounts, 1, <<>>, t)

\* Faulty variant: the amounts of the batch counted in the day's total.
batchDistributeCall_Counted(w, sender, recipients, amounts, t) ==
    IF ~onlyOwner(w, sender) THEN Fail("Unauthorized", w, w)
    ELSE IF ~nonReentrant(w) THEN Fail("ReentrantCall", w, w)
    ELSE IF Len(recipients) # Len(amounts) THEN Fail("LengthMismatch", w, w)
    ELSE IF ~(Len(recipients) > 0) THEN Fail("EmptyInput", w, w)
    ELSE LET totalAmount == SumAmounts(amounts, 1, 0) IN
    IF totalAmount = -1 THEN Fail("Panic", w, w)
    ELSE IF ~(w.balances[FAUCET] >= totalAmount) THEN Fail("InsufficientFaucetBalance", w, w)
    ELSE LET r == DistributeLoop(w, w, recipients, amounts, 1, <<>>, t) IN
    IF r.outcome # "ok" THEN r
    ELSE Ok([r.w EXCEPT !.totalDistributedToday = @ + totalAmount], r.logs)

\* batchDistribute(recipients, amounts) onlyOwner nonReentrant.
batchDistributeCall(w, sender, recipients, amounts, t) ==
    IF ~onlyOwner(w, sender) THEN Fail("Unauthorized", w, w)
    ELSE IF ~nonReentrant(w) THEN Fail("ReentrantCall", w, w)
    ELSE IF Len(recipients) # Len(amounts) THEN Fail("LengthMismatch", w, w)
    ELSE IF ~(Len(recipients) > 0) THEN Fail("EmptyInput", w, w)
    ELSE LET totalAmount == SumAmounts(amounts, 1, 0) IN
    IF totalAmount = -1 THEN Fail("Panic", w, w)
    ELSE IF ~(w.balances[FAUCET] >= totalAmount) THEN Fail("InsufficientFaucetBalance", w, w)
    ELSE DistributeLoop(w, w, recipients, amounts, 1, <<>>, t)

\* Faulty variant: the deposit credited without the pull from the caller.
depositTokensCall_NoPull(w, sender, amount) ==
    IF ~nonReentrant(w) THEN Fail("ReentrantCall", w, w)
    ELSE IF ~(amount > 0) THEN Fail("InvalidAmount", w, w)
    ELSE Ok([w EXCEPT !.balances[FAUCET] = @ + amount],
            <<TokensDeposited(sender, amount)>>)

\* depositTokens(amount) nonReentrant.
depositTokensCall(w, sender, amount) ==
    IF ~nonReentrant(w) THEN Fail("ReentrantCall", w, w)
    ELSE IF ~(amount > 0) THEN Fail("InvalidAmount", w, w)
    ELSE LET x == safeTransferFrom(w, sender, amount) IN
    IF ~x.ok THEN Fail("LedgerTransferFailed", w, w)
    ELSE Ok(x.w, <<TokensDeposited(sender, amount)>>)

\* Faulty variant: the balance require left out.
withdrawTokensCall_NoBalanceCheck(w, sender, amount) ==
    IF ~onlyOwner(w, sender) THEN Fail("Unauthorized", w, w)
    ELSE IF ~nonReentrant(w) THEN Fail("ReentrantCall", w, w)
    ELSE IF ~(amount > 0) THEN Fail("InvalidAmount", w, w)
    ELSE LET x == safeTransfer(w, w.owner, amount) IN
    IF ~x.ok THEN Fail("LedgerTransferFailed", w, w)
    ELSE Ok(x.w, <<TokensWithdrawn(w.owner, amount)>>)

\* withdrawTokens(amount) onlyOwner nonReentrant.
withdrawTokensCall(w, sender, amount) ==
    IF ~onlyOwner(w, sender) THEN Fail("Unauthorized", w, w)
    ELSE IF ~nonReentrant(w) THEN Fail("ReentrantCall", w, w)
    ELSE IF ~(amount > 0) THEN Fail("InvalidAmount", w, w)
    ELSE IF ~(w.balances[FAUCET] >= amount) THEN Fail("InsufficientFaucetBalance", w, w)
    ELSE LET x == safeTransfer(w, w.owner, amount) IN
    IF ~x.ok THEN Fail("LedgerTransferFailed", w, w)
    ELSE Ok(x.w, <<TokensWithdrawn(w.owner, amount)>>)

\* Faulty variant: the daily limit not compared with the payout.
configureFaucetCall_NoDailyCheck(w, sender, tokensPerRequest_, cooldownTime_, maxTokensPerAddress_, dailyLimit_) ==
    IF ~onlyOwner(w, sender) THEN Fail("Unauthorized", w, w)
    ELSE IF ~(tokensPerRequest_ > 0) THEN Fail("InvalidConfig", w, w)
    ELSE IF ~(maxTokensPerAddress_ >= tokensPerRequest_) THEN Fail("InvalidConfig", w, w)
    ELSE Ok([w EXCEPT !.tokensPerRequest = tokensPerRequest_,
                      !.cooldownTime = cooldownTime_,
                      !.maxTokensPerAddress = maxTokensPerAddress_,
                      !.dailyLimit = dailyLimit_],
            <<FaucetConfigured(tokensPerRequest_, cooldownTime_, maxTokensPerAddress_, dailyLimit_)>>)

\* Faulty variant: a new configuration begins a new day's total.
configureFaucetCall_ResetsTotal(w, sender, tokensPerRequest_, cooldownTime_, maxTokensPerAddress_, dailyLimit_) ==
    IF ~onlyOwner(w, sender) THEN Fail("Unauthorized", w, w)
    ELSE IF ~(tokensPerRequest_ > 0) THEN Fail("InvalidConfig", w, w)
    ELSE IF ~(maxTokensPerAddress_ >= tokensPerRequest_) THEN Fail("InvalidConfig", w, w)
    ELSE IF ~(dailyLimit_ >= tokensPerRequest_) THEN Fail("InvalidConfig", w, w)
    ELSE Ok([w EXCEPT !.tokensPerRequest = tokensPerRequest_,
                      !.cooldownTime = cooldownTime_,
                      !.maxTokensPerAddress = maxTokensPerAddress_,
                      !.dailyLimit = dailyLimit_,
                      !.totalDistributedToday = 0],
            <<FaucetConfigured(tokensPerRequest_, cooldownTime_, maxTokensPerAddress_, dailyLimit_)>>)

\* configureFaucet(tokensPerRequest_, cooldownTime_, maxTokensPerAddress_, dailyLimit_) onlyOwner.
configureFaucetCall(w, sender, tokensPerRequest_, cooldownTime_, maxTokensPerAddress_, dailyLimit_) ==
    IF ~onlyOwner(w, sender) THEN Fail("Unauthorized", w, w)
    ELSE IF ~(tokensPerRequest_ > 0) THEN Fail("InvalidConfig", w, w)
    ELSE IF ~(maxTokensPerAddress_ >= tokensPerRequest_) THEN Fail("InvalidConfig", w, w)
    ELSE IF ~(dailyLimit_ >= tokensPerRequest_) THEN Fail("InvalidConfig", w, w)
    ELSE Ok([w EXCEPT !.tokensPerRequest = tokensPerRequest_,
                      !.cooldownTime = cooldownTime_,
                      !.maxTokensPerAddress = maxTokensPerAddress_,
                      !.dailyLimit = dailyLimit_],
            <<FaucetConfigured(tokensPerRequest_, cooldownTime_, maxTokensPerAddress_, dailyLimit_)>>)

\* pause() onlyOwner; Pausable._pause is whenNotPaused.
pauseCall(w, sender) ==
    IF ~onlyOwner(w, sender) THEN Fail("Unauthorized", w, w)
    ELSE IF ~whenNotPaused(w) THEN Fail("Paused", w, w)
    ELSE Ok([w EXCEPT !.paused = TRUE], <<<<"Paused", sender>>>>)

\* unpause() onlyOwner; Pausable._unpause is whenPaused.
unpauseCall(w, sender) ==
    IF ~onlyOwner(w, sender) THEN Fail("Unauthorized", w, w)
    ELSE IF ~w.paused THEN Fail("NotPaused", w, w)
    ELSE Ok([w EXCEPT !.paused = FALSE], <<<<"Unpaused", sender>>>>)

\* Faulty variant: the status argument ignored, the address always listed.
setBlacklistedCall_AlwaysLists(w, sender, user, status) ==
    IF ~onlyOwner(w, sender) THEN Fail("Unauthorized", w, w)
    ELSE IF user = ZERO THEN Fail("InvalidAddress", w, w)
    ELSE Ok([w EXCEPT !.blacklisted[user] = TRUE], <<UserBlacklisted(user, status)>>)

\* setBlacklisted(user, status) onlyOwner.
setBlacklistedCall(w, sender, user, status) ==
    IF ~onlyOwner(w, sender) THEN Fail("Unauthorized", w, w)
    ELSE IF user = ZERO THEN Fail("InvalidAddress", w, w)
    ELSE Ok([w EXCEPT !.blacklisted[user] = status], <<UserBlacklisted(user, status)>>)

\* Faulty variant: the explicit reset bound to the 24h window.
resetDailyLimitCall_IfNeeded(w, sender, t) ==
    IF ~onlyOwner(w, sender) THEN Fail("Unauthorized", w, w)
    ELSE LET r == _resetDailyLimitIfNeeded(w, t) IN Ok(r.w, r.logs)

\* resetDailyLimit() onlyOwner.
resetDailyLimitCall(w, sender, t) ==
    IF ~onlyOwner(w, sender) THEN Fail("Unauthorized", w, w)
    ELSE LET r == _resetDailyLimit(w, t) IN Ok(r.w, r.logs)

\* Faulty variant: the amount require left out.
emergencyWithdrawCall_NoAmountCheck(w, sender, tokenAddress, amount) ==
    IF ~onlyOwner(w, sender) THEN Fail("Unauthorized", w, w)
    ELSE IF tokenAddress = ZERO THEN Fail("InvalidAddress", w, w)
    ELSE LET x == safeTransfer(w, w.owner, amount) IN
    IF ~x.ok THEN Fail("LedgerTransferFailed", w, w)
    ELSE Ok(x.w, <<EmergencyWithdraw(tokenAddress, amount)>>)

\* emergencyWithdraw(tokenAddress, amount) onlyOwner, for the faucet's own
\* token: the transfer reverts in the token when the balance is short.
emergencyWithdrawCall(w, sender, tokenAddress, amount) ==
    IF ~onlyOwner(w, sender) THEN Fail("Unauthorized", w, w)
    ELSE IF tokenAddress = ZERO THEN Fail("InvalidAddress", w, w)
    ELSE IF ~(amount > 0) THEN Fail("InvalidAmount", w, w)
    ELSE LET x == safeTransfer(w, w.owner, amount) IN
    IF ~x.ok THEN Fail("LedgerTransferFailed", w, w)
    ELSE Ok(x.w, <<EmergencyWithdraw(tokenAddress, amount)>>)

\* -------------------------------------------------------- calls in progress
\* The storage at the moment a nonReentrant function issues its call to the
\* ledger: the guard entered and the writes made so far in place.  reached
\* is FALSE when the function fails before it calls the ledger.
NotReached(w) == [reached |-> FALSE, w |-> w]
Entered(w) == [reached |-> TRUE, w |-> [w EXCEPT !.entered = TRUE]]

\* requestTokens at token.safeTransfer(user, tokensPerRequest): the implicit
\* reset and the user records are written, the payout is not made.
requestTokensAtTransfer(w, user, origin, t) ==
    IF ~nonReentrant(w) \/ ~whenNotPaused(w) THEN NotReached(w)
    ELSE IF _validateRequest(w, user, origin, t) # "ok" THEN NotReached(w)
    ELSE LET w1 == _resetDailyLimitIfNeeded(w, t).w IN
    IF Overflows(w1.totalDistributedToday, w1.tokensPerRequest) THEN NotReached(w)
    ELSE IF ~UnderDailyLimit(w1) \/ ~FaucetFunded(w1) THEN NotReached(w)
    ELSE Entered(UpdateUserRecords(w1, user, t))

\* batchDistribute at token.safeTransfer(recipients[k], amounts[k]): the
\* transfers of the entries before k are made.
batchDistributeAtTransfer(w, sender, recipients, amounts, t, k) ==
    IF ~onlyOwner(w, sender) \/ ~nonReentrant(w) THEN NotReached(w)
    ELSE IF Len(recipients) # Len(amounts) \/ k \notin 1..Len(recipients) THEN NotReached(w)
    ELSE LET totalAmount == SumAmounts(amounts, 1, 0) IN
    IF totalAmount = -1 \/ ~(w.balances[FAUCET] >= totalAmount) THEN NotReached(w)
    ELSE LET r == DistributeLoop(w, w, SubSeq(recipients, 1, k - 1),
                                 SubSeq(amounts, 1, k - 1), 1, <<>>, t) IN
    IF r.outcome # "ok" \/ recipients[k] = ZERO \/ ~(amounts[k] > 0) THEN NotReached(w)
    ELSE Entered(r.w)

\* depositTokens at token.safeTransferFrom(msg.sender, address(this), amount).
depositTokensAtTransfer(w, sender, amount) ==
    IF ~nonReentrant(w) \/ ~(amount > 0) THEN NotReached(w)
    ELSE Entered(w)

\* withdrawTokens at token.safeTransfer(owner(), amount).
withdrawTokensAtTransfer(w, sender, amount) ==
    IF ~onlyOwner(w, sender) \/ ~nonReentrant(w) THEN NotReached(w)
    ELSE IF ~(amount > 0) \/ ~(w.balances[FAUCET] >= amount) THEN NotReached(w)
    ELSE Entered(w)

\* ----------------------------------------------------------- view functions
\* The result of a view function: its outcome and the values it returns; a
\* view writes no storage and emits no event.
Returns(w, ret) == [outcome |-> "ok", w |-> w, logs |-> <<>>, ret |-> ret]
Reverts(kind, w) == [outcome |-> kind, w |-> Revert(w, w), logs |-> <<>>, ret |-> <<>>]

\* Faulty variant: the daily limit not consulted.
_canUserRequest_NoDaily(w, user, t) ==
    IF w.paused \/ w.blacklisted[user] THEN "false"
    ELSE IF Overflows(w.lastRequestTime[user], w.cooldownTime) THEN "Panic"
    ELSE IF t < w.lastRequestTime[user] + w.cooldownTime THEN "false"
    ELSE IF Overflows(w.totalTokensReceived[user], w.tokensPerRequest) THEN "Panic"
    ELSE IF w.totalTokensReceived[user] + w.tokensPerRequest > w.maxTokensPerAddress
         THEN "false"
    ELSE IF w.balances[FAUCET] >= w.tokensPerRequest THEN "true" ELSE "false"

\* Faulty variant: the faucet's balance not consulted.
_canUserRequest_NoBalance(w, user, t) ==
    IF w.paused \/ w.blacklisted[user] THEN "false"
    ELSE IF Overflows(w.lastRequestTime[user], w.cooldownTime) THEN "Panic"
    ELSE IF t < w.lastRequestTime[user] + w.cooldownTime THEN "false"
    ELSE IF Overflows(w.totalTokensReceived[user], w.tokensPerRequest) THEN "Panic"
    ELSE IF w.totalTokensReceived[user] + w.tokensPerRequest > w.maxTokensPerAddress
         THEN "false"
    ELSE IF Overflows(w.totalDistributedToday, w.tokensPerRequest) THEN "Panic"
    ELSE IF w.totalDistributedToday + w.tokensPerRequest > w.dailyLimit THEN "false"
    ELSE "true"

\* _canUserRequest(user) at time t: "true", "false", or "Panic" when an
\* addition it evaluates overflows.
_canUserRequest(w, user, t) ==
    IF w.paused \/ w.blacklisted[user] THEN "false"
    ELSE IF Overflows(w.lastRequestTime[user], w.cooldownTime) THEN "Panic"
    ELSE IF t < w.lastRequestTime[user] + w.cooldownTime THEN "false"
    ELSE IF Overflows(w.totalTokensReceived[user], w.tokensPerRequest) THEN "Panic"
    ELSE IF w.totalTokensReceived[user] + w.tokensPerRequest > w.maxTokensPerAddress
         THEN "false"
    ELSE IF Overflows(w.totalDistributedToday, w.tokensPerRequest) THEN "Panic"
    ELSE IF w.totalDistributedToday + w.tokensPerRequest > w.dailyLimit THEN "false"
    ELSE IF w.balances[FAUCET] >= w.tokensPerRequest THEN "true" ELSE "false"

\* Faulty variant: the wait computed from the last request alone.
getUserInfoCall_NoCooldown(w, user, t) ==
    LET canRequest == _canUserRequest(w, user, t) IN
    IF canRequest = "Panic" THEN Reverts("Panic", w)
    ELSE Returns(w, <<w.totalTokensReceived[user], w.lastRequestTime[user],
                      canRequest = "true",
                      IF t < w.lastRequestTime[user]
                      THEN w.lastRequestTime[user] - t ELSE 0>>)

\* Faulty variant: the query stamps the time of the asking.
getUserInfoCall_Writes(w, user, t) ==
    Returns([w EXCEPT !.lastRequestTime[user] = t],
            <<w.totalTokensReceived[user], w.lastRequestTime[user], FALSE, 0>>)

\* getUserInfo(user) at time t, returning
\* <<totalReceived, lastRequest, canRequest, timeUntilNextRequest>>.
getUserInfoCall(w, user, t) ==
    LET totalReceived == w.totalTokensReceived[user]
        lastRequest == w.lastRequestTime[user]
    IN
    IF Overflows(lastRequest, w.cooldownTime) THEN Reverts("Panic", w)
    ELSE LET nextRequestTime == lastRequest + w.cooldownTime
             canRequest == _canUserRequest(w, user, t)
         IN
    IF canRequest = "Panic" THEN Reverts("Panic", w)
    ELSE Returns(w, <<totalReceived, lastRequest, canRequest = "true",
                      IF t < nextRequestTime THEN nextRequestTime - t ELSE 0>>)

\* getFaucetBalance().
getFaucetBalanceCall(w) == Returns(w, <<w.balances[FAUCET]>>)

\* getFaucetConfig().
getFaucetConfigCall(w) ==
    Returns(w, <<w.tokensPerRequest, w.cooldownTime, w.maxTokensPerAddress,
                 w.dailyLimit, w.totalDistributedToday, w.paused>>)

\* canUserRequest(user) at time t.
canUserRequestCall(w, user, t) ==
    LET canRequest == _canUserRequest(w, user, t) IN
    IF canRequest = "Panic" THEN Reverts("Panic", w)
    ELSE Returns(w, <<canRequest = "true">>)

\* remainingMintableSupply(): cap - totalSupply(), checked.
remainingMintableSupplyCall(w) ==
    IF w.cap < w.totalSupply THEN Reverts("Panic", w)
    ELSE Returns(w, <<w.cap - w.totalSupply>>)

\* ------------------------------------------------------------ initial state
\* The storage at the faucet's address before its constructor has run: every
\* slot zero.  The token is deployed, its supply with the deployer, who has
\* approved the faucet's address as spender without limit.
NoContract ==
    [tokensPerRequest |-> 0, cooldownTime |-> 0, maxTokensPerAddress |-> 0,
     dailyLimit |-> 0, totalDistributedToday |-> 0, lastResetTime |-> 0,
     lastRequestTime |-> [a \in Accounts |-> 0],
     totalTokensReceived |-> [a \in Accounts |-> 0],
     blacklisted |-> [a \in Accounts |-> FALSE],
     paused |-> FALSE, owner |-> ZERO,
     balances |-> [h \in Holders |-> IF h = Deployer THEN InitialSupply ELSE 0],
     allowance |-> [h \in Holders |-> IF h = Deployer THEN UINT_MAX ELSE 0],
     totalSupply |-> InitialSupply, cap |-> TokenCap,
     tokenOwner |-> Deployer, tokenPaused |-> FALSE,
     entered |-> FALSE]

\* Faulty variant: the constructor without its requires.
constructorCall_Unchecked(w, sender, tokenAddress, tokensPerRequest_, cooldownTime_, maxTokensPerAddress_, dailyLimit_, t) ==
    Ok([w EXCEPT !.owner = sender,
                 !.tokensPerRequest = tokensPerRequest_,
                 !.cooldownTime = cooldownTime_,
                 !.maxTokensPerAddress = maxTokensPerAddress_,
                 !.dailyLimit = dailyLimit_,
                 !.lastResetTime = t],
       <<FaucetConfigured(tokensPerRequest_, cooldownTime_, maxTokensPerAddress_, dailyLimit_)>>)

\* constructor(tokenAddress, tokensPerRequest_, cooldownTime_,
\* maxTokensPerAddress_, dailyLimit_) Ownable(msg.sender), at time t.  Each of
\* its four requires is a rejection of the constructor's arguments.
constructorCall(w, sender, tokenAddress, tokensPerRequest_, cooldownTime_, maxTokensPerAddress_, dailyLimit_, t) ==
    IF tokenAddress = ZERO THEN Fail("InvalidConfig", w, w)
    ELSE IF ~(tokensPerRequest_ > 0) THEN Fail("InvalidConfig", w, w)
    ELSE IF ~(maxTokensPerAddress_ >= tokensPerRequest_) THEN Fail("InvalidConfig", w, w)
    ELSE IF ~(dailyLimit_ >= tokensPerRequest_) THEN Fail("InvalidConfig", w, w)
    ELSE Ok([w EXCEPT !.owner = sender,
                      !.tokensPerRequest = tokensPerRequest_,
                      !.cooldownTime = cooldownTime_,
                      !.maxTokensPerAddress = maxTokensPerAddress_,
                      !.dailyLimit = dailyLimit_,
                      !.lastResetTime = t],
            <<FaucetConfigured(tokensPerRequest_, cooldownTime_, maxTokensPerAddress_, dailyLimit_)>>)

\* The variables hold storage w.
Holds(w) ==
    /\ tokensPerRequest = w.tokensPerRequest
    /\ cooldownTime = w.cooldownTime
    /\ maxTokensPerAddress = w.maxTokensPerAddress
    /\ dailyLimit = w.dailyLimit
    /\ totalDistributedToday = w.totalDistributedToday
    /\ lastResetTime = w.lastResetTime
    /\ lastRequestTime = w.lastRequestTime
    /\ totalTokensReceived = w.totalTokensReceived
    /\ blacklisted = w.blacklisted
    /\ paused = w.paused
    /\ owner = w.owner
    /\ balances = w.balances
    /\ allowance = w.allowance
    /\ totalSupply = w.totalSupply
    /\ cap = w.cap
    /\ tokenOwner = w.tokenOwner
    /\ tokenPaused = w.tokenPaused

\* The state after a construction by the deployer that succeeded, with the
\* token as ledger and a configuration the constructor accepts.
Init ==
    /\ now = StartTime
    /\ \E c \in ConfigInputs :
          LET r == constructorCall(NoContract, Deployer, TOKEN,
                                   c[1], c[2], c[3], c[4], StartTime)
          IN /\ r.outcome = "ok"
             /\ Holds(r.w)
             /\ last = [op |-> "constructor", sender |-> Deployer, outcome |-> r.outcome]
             /\ logs = r.logs
    /\ returned = <<>>

\* ------------------------------------------------------------- transactions
\* The end of a transaction: the storage of result r, its events, its outcome.
Commit(op, sender, r) ==
    /\ tokensPerRequest' = r.w.tokensPerRequest
    /\ cooldownTime' = r.w.cooldownTime
    /\ maxTokensPerAddress' = r.w.maxTokensPerAddress
    /\ dailyLimit' = r.w.dailyLimit
    /\ totalDistributedToday' = r.w.totalDistributedToday
    /\ lastResetTime' = r.w.lastResetTime
    /\ lastRequestTime' = r.w.lastRequestTime
    /\ totalTokensReceived' = r.w.totalTokensReceived
    /\ blacklisted' = r.w.blacklisted
    /\ paused' = r.w.paused
    /\ owner' = r.w.owner
    /\ balances' = r.w.balances
    /\ allowance' = r.w.allowance
    /\ totalSupply' = r.w.totalSupply
    /\ cap' = r.w.cap
    /\ tokenOwner' = r.w.tokenOwner
    /\ tokenPaused' = r.w.tokenPaused
    /\ last' = [op |-> op, sender |-> sender, outcome |-> r.outcome]
    /\ logs' = r.logs
    /\ returned' = <<>>
    /\ UNCHANGED now

\* tx.origin of a call by sender: the sender itself when it is an externally
\* owned account, the account behind it when it is a contract.
Origins(sender) == IF sender \in EOA THEN {sender} ELSE EOA

requestTokens(user) ==
    \E origin \in Origins(user) :
        Commit("requestTokens", user, requestTokensCall(World, user, origin, now))

batchDistribute(sender) ==
    \E b \in BatchInputs :
        Commit("batchDistribute", sender,
               batchDistributeCall(World, sender, b[1], b[2], now))

depositTokens(sender) ==
    \E amount \in TransferAmounts :
        Commit("depositTokens", sender, depositTokensCall(World, sender, amount))

withdrawTokens(sender) ==
    \E amount \in TransferAmounts :
        Commit("withdrawTokens", sender, withdrawTokensCall(World, sender, amount))

configureFaucet(sender) ==
    \E c \in ConfigInputs :
        Commit("configureFaucet", sender,
               configureFaucetCall(World, sender, c[1], c[2], c[3], c[4]))

pause(sender) == Commit("pause", sender, pauseCall(World, sender))

unpause(sender) == Commit("unpause", sender, unpauseCall(World, sender))

setBlacklisted(sender) ==
    \E user \in BlacklistTargets, status \in BOOLEAN :
        Commit("setBlacklisted", sender, setBlacklistedCall(World, sender, user, status))

resetDailyLimit(sender) ==
    Commit("resetDailyLimit", sender, resetDailyLimitCall(World, sender, now))

emergencyWithdraw(sender) ==
    \E tokenAddress \in LedgerInputs, amount \in TransferAmounts :
        Commit("emergencyWithdraw", sender,
               emergencyWithdrawCall(World, sender, tokenAddress, amount))

\* token.transfer(address(faucet), value) by a holder: direct funding.
transfer(holder) ==
    \E value \in TransferAmounts :
        /\ ~tokenPaused
        /\ balances[holder] >= value
        /\ balances' = [balances EXCEPT ![holder] = @ - value, ![FAUCET] = @ + value]
        /\ last' = [op |-> "transfer", sender |-> holder, outcome |-> "ok"]
        /\ logs' = <<>>
        /\ returned' = <<>>
        /\ UNCHANGED <<tokensPerRequest, cooldownTime, maxTokensPerAddress, dailyLimit,
                       totalDistributedToday, lastResetTime, lastRequestTime,
                       totalTokensReceived, blacklisted, paused, owner, allowance,
                       totalSupply, cap, tokenOwner, tokenPaused, now>>

\* A later block: block.timestamp grows.
Tick ==
    /\ now < StartTime + MaxTicks * TimeStep
    /\ now' = now + TimeStep
    /\ last' = [op |-> "tick", sender |-> ZERO, outcome |-> "ok"]
    /\ logs' = <<>>
    /\ returned' = <<>>
    /\ UNCHANGED storage

Next ==
    \/ \E user \in Requesters : requestTokens(user)
    \/ \E sender \in Senders : batchDistribute(sender)
    \/ \E sender \in Senders : depositTokens(sender)
    \/ \E sender \in Senders : withdrawTokens(sender)
    \/ \E sender \in Senders : configureFaucet(sender)
    \/ \E sender \in Senders : pause(sender)
    \/ \E sender \in Senders : unpause(sender)
    \/ \E sender \in Senders : setBlacklisted(sender)
    \/ \E sender \in Senders : resetDailyLimit(sender)
    \/ \E sender \in Senders : emergencyWithdraw(sender)
    \/ transfer(Deployer)
    \/ Tick

Spec == Init /\ [][Next]_vars

\* --------------------------------------------------------------- deployment
\* The faucet's address before the constructor has run.
InitNoContract ==
    /\ now = StartTime
    /\ Holds(NoContract)
    /\ last = [op |-> "none", sender |-> ZERO, outcome |-> "ok"]
    /\ logs = <<>>
    /\ returned = <<>>

\* A deployment transaction by sender: the constructor runs once, on the
\* empty storage; a construction that reverts leaves no contract.
constructor(sender) ==
    /\ owner = ZERO
    /\ \E tokenAddress \in LedgerInputs, c \in ConfigInputs :
          Commit("constructor", sender,
                 constructorCall(World, sender, tokenAddress,
                                 c[1], c[2], c[3], c[4], now))

\* Deployments at any time by any sender, and the owner-only switches of the
\* deployed contract.
DeploymentNext ==
    \/ \E sender \in Senders : constructor(sender)
    \/ Tick
    \/ \E sender \in Senders : owner # ZERO /\ pause(sender)
    \/ \E sender \in Senders : owner # ZERO /\ unpause(sender)
    \/ \E sender \in Senders : owner # ZERO /\ setBlacklisted(sender)
    \/ \E sender \in Senders : owner # ZERO /\ resetDailyLimit(sender)

Deployment == InitNoContract /\ [][DeploymentNext]_vars

\* ------------------------------------------------------------------ queries
\* The end of a call of a view function: what it returned.
Answer(op, sender, r) ==
    /\ tokensPerRequest' = r.w.tokensPerRequest
    /\ cooldownTime' = r.w.cooldownTime
    /\ maxTokensPerAddress' = r.w.maxTokensPerAddress
    /\ dailyLimit' = r.w.dailyLimit
    /\ totalDistributedToday' = r.w.totalDistributedToday
    /\ lastResetTime' = r.w.lastResetTime
    /\ lastRequestTime' = r.w.lastRequestTime
    /\ totalTokensReceived' = r.w.totalTokensReceived
    /\ blacklisted' = r.w.blacklisted
    /\ paused' = r.w.paused
    /\ owner' = r.w.owner
    /\ balances' = r.w.balances
    /\ allowance' = r.w.allowance
    /\ totalSupply' = r.w.totalSupply
    /\ cap' = r.w.cap
    /\ tokenOwner' = r.w.tokenOwner
    /\ tokenPaused' = r.w.tokenPaused
    /\ last' = [op |-> op, sender |-> sender, outcome |-> r.outcome]
    /\ logs' = r.logs
    /\ returned' = r.ret
    /\ UNCHANGED now

\* An address asks about itself.
getUserInfo(user) == Answer("getUserInfo", user, getUserInfoCall(World, user, now))

canUserRequest(user) ==
    Answer("canUserRequest", user, canUserRequestCall(World, user, now))

getFaucetBalance(sender) ==
    Answer("getFaucetBalance", sender, getFaucetBalanceCall(World))

getFaucetConfig(sender) ==
    Answer("getFaucetConfig", sender, getFaucetConfigCall(World))

\* configureFaucet with arguments at the upper end of the unsigned range.
configureFaucetExtreme(sender) ==
    \E c \in ExtremeConfigInputs :
        Commit("configureFaucet", sender,
               configureFaucetCall(World, sender, c[1], c[2], c[3], c[4]))

\* The request path, the administrator's switches and the funding of the
\* faucet, with the view functions called in between.
QueriesNext ==
    \/ \E user \in Requesters : requestTokens(user)
    \/ configureFaucet(Deployer)
    \/ configureFaucetExtreme(Deployer)
    \/ pause(Deployer)
    \/ unpause(Deployer)
    \/ setBlacklisted(Deployer)
    \/ transfer(Deployer)
    \/ Tick
    \/ \E user \in Accounts : getUserInfo(user)
    \/ \E user \in Accounts : canUserRequest(user)
    \/ getFaucetBalance("user1")
    \/ getFaucetConfig("user1")

Queries == Init /\ [][QueriesNext]_vars

\* -------------------------------------------------------------------- epoch
\* The request path with the explicit reset of the day, the funding and the
\* draining of the faucet.
EpochNext ==
    \/ \E user \in Requesters : requestTokens(user)
    \/ \E sender \in Senders : resetDailyLimit(sender)
    \/ \E sender \in Senders : pause(sender)
    \/ \E sender \in Senders : unpause(sender)
    \/ withdrawTokens(Deployer)
    \/ transfer(Deployer)
    \/ Tick

Epoch == Init /\ [][EpochNext]_vars

\* ----------------------------------------------------------------- scenario
\* The deployment of the reference tests: TOKENS_PER_REQUEST, COOLDOWN_TIME,
\* MAX_TOKENS_PER_ADDRESS, DAILY_LIMIT (in whole tokens), the faucet funded
\* with faucetSupply.
ScenarioConfig == <<10, 3600, 100, 1000>>
ScenarioFunding == 5000
\* INITIAL_SUPPLY and TOKEN_CAP of the token.
ScenarioSupply == 10000
ScenarioCap == 100000
\* evm_increaseTime(COOLDOWN_TIME + 1) between two requests.
ScenarioStep == 3601
\* Number of such steps of a run.
ScenarioTicks == 11
\* block.timestamp of the deployment: the first second, the first second
\* that is a cooldown after it, and a later one.
ScenarioStarts == {0, ScenarioConfig[2], StartTime}

\* The faucet deployed with ScenarioConfig at time t and funded; no address
\* has requested.
ScenarioWorld(t) ==
    LET r == constructorCall(NoContract, Deployer, TOKEN, ScenarioConfig[1],
                             ScenarioConfig[2], ScenarioConfig[3], ScenarioConfig[4], t)
    IN [r.w EXCEPT !.totalSupply = ScenarioSupply,
                   !.cap = ScenarioCap,
                   !.balances =
                       [h \in Holders |->
                           IF h = FAUCET THEN ScenarioFunding
                           ELSE IF h = Deployer THEN ScenarioSupply - ScenarioFunding
                           ELSE 0]]

ScenarioInit ==
    /\ now \in ScenarioStarts
    /\ Holds(ScenarioWorld(now))
    /\ last = [op |-> "transfer", sender |-> Deployer, outcome |-> "ok"]
    /\ logs = <<>>
    /\ returned = <<>>

\* evm_increaseTime: the next block is ScenarioStep seconds later.
increaseTime ==
    /\ now < lastResetTime + ScenarioTicks * ScenarioStep
    /\ now' = now + ScenarioStep
    /\ last' = [op |-> "tick", sender |-> ZERO, outcome |-> "ok"]
    /\ logs' = <<>>
    /\ returned' = <<>>
    /\ UNCHANGED storage

ScenarioNext ==
    \/ \E user \in Requesters : requestTokens(user)
    \/ increaseTime

Scenario == ScenarioInit /\ [][ScenarioNext]_vars

\* ------------------------------------------------------------------- ledger
\* Arguments of the token's constructor, as <<initialSupply_, cap_>>.
TokenConstructorInputs ==
    {<<0, 0>>, <<InitialSupply, 0>>, <<TokenCap, TokenCap - 1>>,
     <<0, TokenCap - 1>>, <<InitialSupply, TokenCap>>, <<TokenCap, TokenCap>>}
MintRecipients == {ZERO, "owner", "user1"}
\* Arguments of batchMint, as <<recipients, amounts>>.
BatchMintInputs ==
    {<< <<>>, <<>> >>, << <<"user1", "owner">>, <<1>> >>,
     << <<"user1">>, <<1>> >>, << <<"user1", "owner">>, <<1, 2>> >>,
     << <<"user1", "user1">>, <<1, 1>> >>, << <<"user1", ZERO>>, <<1, 1>> >>,
     << <<"user1", "owner">>, <<UINT_MAX, 1>> >>,
     << <<"user1", "owner">>, <<TokenCap, 1>> >>}
TransferRecipients == {ZERO, "owner", "user1", FAUCET}

\* The storage before the token's constructor has run: no supply, no cap,
\* no owner; the faucet is not deployed.
NoToken ==
    [NoContract EXCEPT !.balances = [h \in Holders |-> 0],
                       !.allowance = [h \in Holders |-> 0],
                       !.totalSupply = 0, !.cap = 0, !.tokenOwner = ZERO]

InitNoToken ==
    /\ now = StartTime
    /\ Holds(NoToken)
    /\ last = [op |-> "none", sender |-> ZERO, outcome |-> "ok"]
    /\ logs = <<>>
    /\ returned = <<>>

\* A deployment of the token by sender: the constructor runs once.
tokenConstructor(sender) ==
    /\ tokenOwner = ZERO
    /\ \E c \in TokenConstructorInputs :
          Commit("token.constructor", sender,
                 tokenConstructorCall(World, sender, c[1], c[2]))

mint(sender) ==
    /\ tokenOwner # ZERO
    /\ \E to \in MintRecipients, amount \in TransferAmounts :
          Commit("mint", sender, mintCall(World, sender, to, amount))

batchMint(sender) ==
    /\ tokenOwner # ZERO
    /\ \E b \in BatchMintInputs :
          Commit("batchMint", sender, batchMintCall(World, sender, b[1], b[2]))

burn(sender) ==
    /\ tokenOwner # ZERO
    /\ \E value \in TransferAmounts :
          Commit("burn", sender, burnCall(World, sender, value))

tokenTransfer(sender) ==
    /\ tokenOwner # ZERO
    /\ \E to \in TransferRecipients, value \in TransferAmounts :
          Commit("token.transfer", sender, tokenTransferCall(World, sender, to, value))

tokenPause(sender) ==
    tokenOwner # ZERO /\ Commit("token.pause", sender, tokenPauseCall(World, sender))

tokenUnpause(sender) ==
    tokenOwner # ZERO /\ Commit("token.unpause", sender, tokenUnpauseCall(World, sender))

remainingMintableSupply(sender) ==
    /\ tokenOwner # ZERO
    /\ Answer("remainingMintableSupply", sender, remainingMintableSupplyCall(World))

LedgerNext ==
    \/ \E sender \in Senders : tokenConstructor(sender)
    \/ \E sender \in Senders : mint(sender)
    \/ \E sender \in Senders : batchMint(sender)
    \/ \E sender \in Senders : burn(sender)
    \/ \E sender \in Senders : tokenTransfer(sender)
    \/ \E sender \in Senders : tokenPause(sender)
    \/ \E sender \in Senders : tokenUnpause(sender)
    \/ remainingMintableSupply("user1")

Ledger == InitNoToken /\ [][LedgerNext]_vars

\* ------------------------------------------------------------------ custody
\* The operations of the faucet that move tokens, over a token that its
\* owner pauses and unpauses.
CustodyNext ==
    \/ \E user \in Requesters : requestTokens(user)
    \/ batchDistribute(Deployer)
    \/ depositTokens(Deployer)
    \/ withdrawTokens(Deployer)
    \/ emergencyWithdraw(Deployer)
    \/ tokenPause(Deployer)
    \/ tokenUnpause(Deployer)
    \/ transfer(Deployer)
    \/ Tick

Custody == Init /\ [][CustodyNext]_vars

\* -------------------------------------------------------------- eligibility
\* The request path and the eligibility query of an externally owned account,
\* under reconfiguration, both pause switches, the blacklist and the funding.
EligibilityNext ==
    \/ \E user \in Requesters : requestTokens(user)
    \/ configureFaucet(Deployer)
    \/ configureFaucetExtreme(Deployer)
    \/ pause(Deployer)
    \/ unpause(Deployer)
    \/ setBlacklisted(Deployer)
    \/ tokenPause(Deployer)
    \/ tokenUnpause(Deployer)
    \/ transfer(Deployer)
    \/ Tick
    \/ \E user \in EOA : getUserInfo(user)

Eligibility == Init /\ [][EligibilityNext]_vars

\* -------------------------------------------------------------------- retry
\* Both externally owned accounts request again and again while time
\* advances, under reconfiguration, the funding of the faucet and the pause
\* of the token.  Time does advance, and user1 does send its request.
RetryNext ==
    \/ \E user \in EOA : requestTokens(user)
    \/ configureFaucet(Deployer)
    \/ tokenPause(Deployer)
    \/ tokenUnpause(Deployer)
    \/ transfer(Deployer)
    \/ Tick

Retry ==
    /\ Init
    /\ [][RetryNext]_vars
    /\ WF_vars(Tick)
    /\ WF_vars(requestTokens("user1"))

\* --------------------------------------------------------------- accounting
\* Requests of both externally owned accounts, the explicit reset of the
\* day, and the administrator's operations that move tokens out of the
\* faucet.
AccountingNext ==
    \/ \E user \in EOA : requestTokens(user)
    \/ resetDailyLimit(Deployer)
    \/ batchDistribute(Deployer)
    \/ withdrawTokens(Deployer)
    \/ emergencyWithdraw(Deployer)
    \/ transfer(Deployer)
    \/ Tick

Accounting == Init /\ [][AccountingNext]_vars

\* -------------------------------------------------------------------- users
\* Requests of every account, direct and relayed, with the administrator's
\* operations on the configuration and the blacklist and its batch
\* distribution.
UsersNext ==
    \/ \E user \in Accounts : requestTokens(user)
    \/ configureFaucet(Deployer)
    \/ setBlacklisted(Deployer)
    \/ batchDistribute(Deployer)
    \/ transfer(Deployer)
    \/ Tick

Users == Init /\ [][UsersNext]_vars

\* =================================================================== claims
\* A step that is a call of function op; its msg.sender is last'.sender and
\* its outcome last'.outcome.
IsCall(op) == last'.op = op
Succeeds == last'.outcome = "ok"

\* ----------------------------------------------------------------------- C1
\* C1 as stated: in every reachable state, for every address,
\* totalReceived[address] <= maxTokensPerAddress.
C1_CapInEveryState ==
    \A a \in Accounts : totalTokensReceived[a] <= maxTokensPerAddress

\* C1 amended: the per-address cap holds after construction, every operation
\* other than a configureFaucet that lowers maxTokensPerAddress preserves it,
\* and whenever an operation changes totalReceived[address] the new value is
\* at most maxTokensPerAddress.
C1_CapKeptUnlessLowered ==
    [][ /\ (C1_CapInEveryState /\ maxTokensPerAddress' >= maxTokensPerAddress)
            => C1_CapInEveryState'
        /\ maxTokensPerAddress' < maxTokensPerAddress
            => (IsCall("configureFaucet") /\ Succeeds)
        /\ \A a \in Accounts :
            totalTokensReceived'[a] # totalTokensReceived[a]
                => totalTokensReceived'[a] <= maxTokensPerAddress' ]_vars

\* A request has just brought user1 exactly to the cap.
C1_Witness ==
    /\ last = [op |-> "requestTokens", sender |-> "user1", outcome |-> "ok"]
    /\ totalTokensReceived["user1"] = maxTokensPerAddress

\* ----------------------------------------------------------------------- C2
\* C2 as stated: in every reachable state totalDistributedToday <= dailyLimit.
C2_DailyCapInEveryState == totalDistributedToday <= dailyLimit

\* C2 amended: the daily cap holds after construction, every operation other
\* than a configureFaucet that lowers dailyLimit preserves it, and whenever an
\* operation changes totalDistributedToday the new value is at most dailyLimit.
C2_DailyCapKeptUnlessLowered ==
    [][ /\ (C2_DailyCapInEveryState /\ dailyLimit' >= dailyLimit)
            => C2_DailyCapInEveryState'
        /\ dailyLimit' < dailyLimit => (IsCall("configureFaucet") /\ Succeeds)
        /\ totalDistributedToday' # totalDistributedToday
            => totalDistributedToday' <= dailyLimit' ]_vars

\* A request has just exhausted the daily limit.
C2_Witness ==
    /\ last = [op |-> "requestTokens", sender |-> "user1", outcome |-> "ok"]
    /\ totalDistributedToday = dailyLimit

\* ------------------------------------------------- the claims' vocabulary
\* The checks of requestTokens as the specification words them, on the state
\* before the call.  A caller is an originating account when it is an
\* externally owned account.
IsOriginator(u) == u \in EOA
HasRequested(u) == lastRequestTime[u] > 0
InCooldown(u) == now < lastRequestTime[u] + cooldownTime
CooldownSumFits(u) == lastRequestTime[u] + cooldownTime <= UINT_MAX
OverAddressCap(u) == totalTokensReceived[u] + tokensPerRequest > maxTokensPerAddress
EpochOver == now >= lastResetTime + DAY
TotalAfterReset == IF EpochOver THEN 0 ELSE totalDistributedToday
OverDailyCap == TotalAfterReset + tokensPerRequest > dailyLimit
FaucetShort == balances[FAUCET] < tokensPerRequest
PassesChecks1To3(u) == ~paused /\ IsOriginator(u) /\ ~blacklisted[u]
PassesChecks1To5(u) == PassesChecks1To3(u) /\ ~InCooldown(u) /\ ~OverAddressCap(u)
OthersPermit(u) ==
    PassesChecks1To3(u) /\ ~OverAddressCap(u) /\ ~OverDailyCap /\ ~FaucetShort

\* The amounts of the TokensRequested records of evs that name user u.
RECURSIVE SumRequested(_, _)
SumRequested(evs, u) ==
    IF evs = <<>> THEN 0
    ELSE (IF Head(evs)[1] = "TokensRequested" /\ Head(evs)[2] = u THEN Head(evs)[3] ELSE 0)
         + SumRequested(Tail(evs), u)

\* ----------------------------------------------------------------------- C3
\* C3 as stated: after a successful requestTokens by A at time T (the latest
\* one, T = lastRequestTime[A]), a requestTokens by A at a time before
\* T + cooldownSeconds fails CooldownActive, and one at or after it passes
\* the cooldown check and succeeds when the other checks permit.
C3_FailsCooldownActive ==
    [][ \A u \in Accounts :
          (IsCall("requestTokens") /\ last'.sender = u /\ HasRequested(u)) =>
            /\ InCooldown(u) => last'.outcome = "CooldownActive"
            /\ ~InCooldown(u) =>
                 /\ last'.outcome # "CooldownActive"
                 /\ OthersPermit(u) => Succeeds ]_vars

\* C3 amended: such a request before T + cooldownSeconds fails; the failure
\* is CooldownActive when the controller is not paused, A is the originator
\* and not blacklisted and T + cooldownSeconds fits the unsigned range (an
\* arithmetic panic when it does not), and the failure of the earlier check
\* otherwise.  At or after T + cooldownSeconds it passes the cooldown check
\* and succeeds when the other checks permit.
C3_CooldownWindow ==
    [][ \A u \in Accounts :
          (IsCall("requestTokens") /\ last'.sender = u /\ HasRequested(u)) =>
            /\ InCooldown(u) =>
                 /\ ~Succeeds
                 /\ PassesChecks1To3(u) =>
                      last'.outcome = (IF CooldownSumFits(u) THEN "CooldownActive"
                                       ELSE "Panic")
                 /\ ~PassesChecks1To3(u) =>
                      last'.outcome \in {"Paused", "CallerNotOriginator", "Blacklisted"}
            /\ ~InCooldown(u) =>
                 /\ last'.outcome # "CooldownActive"
                 /\ OthersPermit(u) => Succeeds ]_vars

\* user1 has requested before and is refused inside the cooldown.
C3_Witness ==
    /\ last = [op |-> "requestTokens", sender |-> "user1", outcome |-> "CooldownActive"]
    /\ HasRequested("user1")
    /\ now >= lastRequestTime["user1"]
    /\ InCooldown("user1")

\* ----------------------------------------------------------------------- C4
\* The effects of a successful requestTokens that C4 states apart from the
\* daily total: the caller's records, both ledger balances, the record.
C4_CallerEffects(u) ==
    /\ lastRequestTime'[u] = now
    /\ totalTokensReceived'[u] = totalTokensReceived[u] + tokensPerRequest
    /\ balances'[FAUCET] = balances[FAUCET] - tokensPerRequest
    /\ balances'[u] = balances[u] + tokensPerRequest
    /\ logs' # <<>>
    /\ logs'[Len(logs')] = TokensRequested(u, tokensPerRequest, now)
    /\ balances'[u] - balances[u] = SumRequested(logs', u)

\* C4 as stated: a successful requestTokens sets lastRequestTime[caller] to
\* now, increases totalReceived[caller] and totalDistributedToday each by
\* exactly tokensPerRequest, moves tokensPerRequest from the faucet's ledger
\* balance to the caller's and emits TokensRequested(caller, tokensPerRequest,
\* now), the caller's gain being the sum of the TokensRequested amounts.
C4_TotalGrowsByPayout ==
    [][ \A u \in Accounts :
          (IsCall("requestTokens") /\ last'.sender = u /\ Succeeds) =>
            /\ C4_CallerEffects(u)
            /\ totalDistributedToday' = totalDistributedToday + tokensPerRequest ]_vars

\* C4 amended: as stated, except that totalDistributedToday ends at
\* tokensPerRequest above its value after the implicit epoch reset: above zero
\* when now >= epochStart + 24h, above the stored total otherwise.
C4_SuccessfulRequest ==
    [][ \A u \in Accounts :
          (IsCall("requestTokens") /\ last'.sender = u /\ Succeeds) =>
            /\ C4_CallerEffects(u)
            /\ totalDistributedToday' = TotalAfterReset + tokensPerRequest ]_vars

\* A successful request that reset a positive daily total first.
C4_Witness ==
    /\ last = [op |-> "requestTokens", sender |-> "user1", outcome |-> "ok"]
    /\ Len(logs) = 2
    /\ logs[1][1] = "DailyLimitReset"
    /\ logs[1][3] > 0
    /\ logs[2] = TokensRequested("user1", tokensPerRequest, now)
    /\ totalDistributedToday = tokensPerRequest

\* ----------------------------------------------------------------------- C5
\* The failure of the earliest violated check, in the order C5 gives; "ok"
\* when none is violated.
C5_EarliestFailure(u) ==
    IF paused THEN "Paused"
    ELSE IF ~IsOriginator(u) THEN "CallerNotOriginator"
    ELSE IF blacklisted[u] THEN "Blacklisted"
    ELSE IF InCooldown(u) THEN "CooldownActive"
    ELSE IF OverAddressCap(u) THEN "PerAddressCapExceeded"
    ELSE IF OverDailyCap THEN "DailyCapExceeded"
    ELSE IF FaucetShort THEN "InsufficientFaucetBalance"
    ELSE "ok"

\* The sum compared by the check that fails with kind f leaves the unsigned range.
C5_SumOverflows(u, f) ==
    \/ f = "CooldownActive" /\ ~CooldownSumFits(u)
    \/ f = "PerAddressCapExceeded"
         /\ totalTokensReceived[u] + tokensPerRequest > UINT_MAX
    \/ f = "DailyCapExceeded" /\ TotalAfterReset + tokensPerRequest > UINT_MAX

\* C5 as stated: requestTokens reports the failure of the earliest violated
\* check of the order Paused, CallerNotOriginator, Blacklisted, CooldownActive,
\* PerAddressCapExceeded, (implicit reset), DailyCapExceeded,
\* InsufficientFaucetBalance.
C5_ReportsEarliestFailure ==
    [][ \A u \in Accounts :
          (IsCall("requestTokens") /\ last'.sender = u) =>
            last'.outcome = C5_EarliestFailure(u) ]_vars

\* C5 amended: requestTokens fails at the earliest violated check of that
\* order and succeeds when none is violated; the failure reported is that
\* check's, except that it is an arithmetic panic when the sum the check
\* compares leaves the unsigned range.
C5_EarliestCheckFails ==
    [][ \A u \in Accounts :
          (IsCall("requestTokens") /\ last'.sender = u) =>
            LET f == C5_EarliestFailure(u) IN
            IF C5_SumOverflows(u, f) THEN last'.outcome = "Panic"
            ELSE last'.outcome = f ]_vars

\* A refused request that violated checks 3, 4, 5 and 8 at once.
C5_Witness ==
    /\ last = [op |-> "requestTokens", sender |-> "user1", outcome |-> "Blacklisted"]
    /\ InCooldown("user1")
    /\ OverAddressCap("user1")
    /\ FaucetShort

\* ----------------------------------------------------------------------- C6
\* C6: an operation that fails leaves the configuration, the epoch, every
\* user record, the pause flag and all ledger balances as they were and emits
\* no record.
C6_FailureChangesNothing ==
    [][ ~Succeeds => (UNCHANGED storage /\ logs' = <<>>) ]_vars

\* A request refused for want of funds after the epoch had run out with a
\* positive total: the implicit reset ran before the failing check.
C6_Witness ==
    /\ last = [op |-> "requestTokens", sender |-> "user1",
               outcome |-> "InsufficientFaucetBalance"]
    /\ EpochOver
    /\ totalDistributedToday > 0

\* ----------------------------------------------------------------------- C7
HasReset(evs) == \E i \in 1..Len(evs) : evs[i][1] = "DailyLimitReset"

\* C7: a requestTokens that passes checks 1-5 resets the epoch exactly when
\* now >= epochStart + 24h and before the daily-cap check: it then never fails
\* DailyCapExceeded and, the faucet holding a payout, succeeds with
\* totalDistributedToday = tokensPerRequest and epochStart = now; a successful
\* request before epochStart + 24h leaves epochStart as it was and emits no
\* DailyLimitReset.
C7_ImplicitReset ==
    [][ \A u \in Accounts :
          (IsCall("requestTokens") /\ last'.sender = u /\ PassesChecks1To5(u)) =>
            /\ EpochOver =>
                 /\ last'.outcome # "DailyCapExceeded"
                 /\ ~FaucetShort =>
                      /\ Succeeds
                      /\ totalDistributedToday' = tokensPerRequest
                      /\ lastResetTime' = now
                      /\ logs'[1] = DailyLimitReset(now, totalDistributedToday)
            /\ (Succeeds /\ ~EpochOver) =>
                 /\ lastResetTime' = lastResetTime
                 /\ ~HasReset(logs')
            /\ Succeeds => (HasReset(logs') <=> EpochOver) ]_vars

\* A request that succeeded although the total before the reset left no room.
C7_Witness ==
    /\ last = [op |-> "requestTokens", sender |-> "user1", outcome |-> "ok"]
    /\ HasReset(logs)
    /\ logs[1][3] + tokensPerRequest > dailyLimit
    /\ totalDistributedToday = tokensPerRequest
    /\ lastResetTime = now

\* ----------------------------------------------------------------------- C8
UnpausableOps ==
    {"batchDistribute", "depositTokens", "withdrawTokens", "configureFaucet",
     "setBlacklisted", "resetDailyLimit"}

\* C8: while the pause flag is set every requestTokens fails Paused, whatever
\* else holds of the caller; the pause never fails batchDistribute,
\* depositTokens, withdrawTokens, configureFaucet, setBlacklisted or
\* resetDailyLimit (the administrator's resetDailyLimit, which has no other
\* precondition, succeeds); with the flag clear no requestTokens fails Paused.
C8_PauseStopsRequestsOnly ==
    [][ /\ (paused /\ IsCall("requestTokens")) => last'.outcome = "Paused"
        /\ (~paused /\ IsCall("requestTokens")) => last'.outcome # "Paused"
        /\ (paused /\ last'.op \in UnpausableOps) => last'.outcome # "Paused"
        /\ (paused /\ IsCall("resetDailyLimit") /\ last'.sender = owner) => Succeeds
        /\ (paused /\ IsCall("requestTokens")) => paused' ]_vars

\* batchDistribute has paid out while the faucet was paused.
C8_Witness ==
    /\ paused
    /\ last = [op |-> "batchDistribute", sender |-> "owner", outcome |-> "ok"]
    /\ Len(logs) = 2

\* ----------------------------------------------------------------------- C9
\* What C9 states besides the failure kind: a blacklist flag changes only in
\* a successful setBlacklisted; while an address is blacklisted, and in the
\* call that blacklists it, its totalReceived and lastRequestTime keep their
\* values; a request of an address that is not blacklisted does not fail
\* Blacklisted.
C9_Frame(u) ==
    /\ blacklisted'[u] # blacklisted[u] => (IsCall("setBlacklisted") /\ Succeeds)
    /\ (blacklisted[u] \/ blacklisted'[u]) =>
         /\ totalTokensReceived'[u] = totalTokensReceived[u]
         /\ lastRequestTime'[u] = lastRequestTime[u]
    /\ (IsCall("requestTokens") /\ last'.sender = u /\ ~blacklisted[u])
         => last'.outcome # "Blacklisted"

\* C9 as stated: every requestTokens of a blacklisted address fails Blacklisted.
C9_FailsBlacklisted ==
    [][ \A u \in Accounts :
          /\ C9_Frame(u)
          /\ (IsCall("requestTokens") /\ last'.sender = u /\ blacklisted[u])
               => last'.outcome = "Blacklisted" ]_vars

\* C9 amended: every requestTokens of a blacklisted address fails: with
\* Blacklisted when the controller is not paused and the address is the
\* originator, with Paused or CallerNotOriginator otherwise.
C9_BlacklistedNeverServed ==
    [][ \A u \in Accounts :
          /\ C9_Frame(u)
          /\ (IsCall("requestTokens") /\ last'.sender = u /\ blacklisted[u]) =>
               /\ ~Succeeds
               /\ (~paused /\ IsOriginator(u)) => last'.outcome = "Blacklisted"
               /\ paused => last'.outcome = "Paused"
               /\ (~paused /\ ~IsOriginator(u))
                    => last'.outcome = "CallerNotOriginator" ]_vars

\* A blacklisted user, otherwise eligible, has been refused.
C9_Witness ==
    /\ last = [op |-> "requestTokens", sender |-> "user1", outcome |-> "Blacklisted"]
    /\ blacklisted["user1"]
    /\ ~InCooldown("user1") /\ ~OverAddressCap("user1") /\ ~OverDailyCap /\ ~FaucetShort
    /\ totalTokensReceived["user1"] > 0

\* ---------------------------------------------------------------------- C10
AdminOps ==
    {"batchDistribute", "withdrawTokens", "emergencyWithdraw", "configureFaucet",
     "setBlacklisted", "pause", "unpause", "resetDailyLimit"}

\* C10: an administrator-only operation called by anyone but the current
\* administrator fails Unauthorized and changes nothing.
C10_OnlyAdministrator ==
    [][ (last'.op \in AdminOps /\ last'.sender # owner) =>
          /\ last'.outcome = "Unauthorized"
          /\ UNCHANGED storage
          /\ logs' = <<>> ]_vars

\* A stranger's emergencyWithdraw on a funded faucet has been refused.
C10_Witness ==
    /\ last = [op |-> "emergencyWithdraw", sender |-> "user1", outcome |-> "Unauthorized"]
    /\ owner # "user1"
    /\ balances[FAUCET] > 0

\* ---------------------------------------------------------------------- C11
\* The constructor's arguments that C11 names as rejected.
C11_Rejected(tokenAddress, c) ==
    c[1] = 0 \/ c[3] < c[1] \/ c[4] < c[1] \/ tokenAddress = ZERO

\* C11: a construction fails InvalidConfig, leaving no contract, when
\* tokensPerRequest is 0, maxTokensPerAddress or dailyLimit is below
\* tokensPerRequest, or the ledger reference is null; every other construction
\* succeeds with the given configuration stored, the sender as administrator,
\* epochStart at the construction time, totalDistributedToday zero, the pause
\* flag clear and every user record empty.
C11_Construction ==
    owner = ZERO =>
      \A sender \in Senders, tokenAddress \in LedgerInputs, c \in ConfigInputs :
        LET r == constructorCall(World, sender, tokenAddress,
                                 c[1], c[2], c[3], c[4], now)
        IN IF C11_Rejected(tokenAddress, c)
           THEN r.outcome = "InvalidConfig" /\ r.w = World /\ r.logs = <<>>
           ELSE /\ r.outcome = "ok"
                /\ <<r.w.tokensPerRequest, r.w.cooldownTime,
                     r.w.maxTokensPerAddress, r.w.dailyLimit>> = c
                /\ r.w.owner = sender
                /\ r.w.lastResetTime = now
                /\ r.w.totalDistributedToday = 0
                /\ ~r.w.paused
                /\ \A a \in Accounts :
                     /\ ~r.w.blacklisted[a]
                     /\ r.w.totalTokensReceived[a] = 0
                     /\ r.w.lastRequestTime[a] = 0
                /\ r.w.balances = balances

\* A construction by user1 in a later block has just succeeded.
C11_Witness ==
    /\ last = [op |-> "constructor", sender |-> "user1", outcome |-> "ok"]
    /\ owner = "user1"
    /\ now > StartTime
    /\ lastResetTime = now
    /\ tokensPerRequest = 2


\* ---------------------------------------------------------------------- C12
C12_ConfigValid ==
    /\ tokensPerRequest > 0
    /\ maxTokensPerAddress >= tokensPerRequest
    /\ dailyLimit >= tokensPerRequest

\* C12: in every reachable state tokensPerRequest > 0, maxTokensPerAddress >=
\* tokensPerRequest and dailyLimit >= tokensPerRequest; the administrator's
\* configureFaucet fails InvalidConfig, changing nothing, on a configuration
\* that violates one of these, and otherwise replaces the four fields by
\* exactly the given values, changes nothing else and emits FaucetConfigured
\* with them.
C12_ConfigureFaucet ==
    /\ C12_ConfigValid
    /\ \A c \in ConfigInputs :
         LET r == configureFaucetCall(World, owner, c[1], c[2], c[3], c[4])
         IN IF c[1] = 0 \/ c[3] < c[1] \/ c[4] < c[1]
            THEN r.outcome = "InvalidConfig" /\ r.w = World /\ r.logs = <<>>
            ELSE /\ r.outcome = "ok"
                 /\ r.w = [World EXCEPT !.tokensPerRequest = c[1],
                                        !.cooldownTime = c[2],
                                        !.maxTokensPerAddress = c[3],
                                        !.dailyLimit = c[4]]
                 /\ r.logs = <<FaucetConfigured(c[1], c[2], c[3], c[4])>>

\* The administrator has just replaced every field of the configuration,
\* with payouts already made.
C12_Witness ==
    /\ last = [op |-> "configureFaucet", sender |-> "owner", outcome |-> "ok"]
    /\ logs = <<FaucetConfigured(2, TimeStep, 2, 2)>>
    /\ <<tokensPerRequest, cooldownTime, maxTokensPerAddress, dailyLimit>>
         = <<2, TimeStep, 2, 2>>
    /\ totalDistributedToday = 1


\* ---------------------------------------------------------------------- C13
\* The sum of the amounts, and of those whose recipient is h.
RECURSIVE C13_Total(_)
C13_Total(amounts) ==
    IF amounts = <<>> THEN 0 ELSE Head(amounts) + C13_Total(Tail(amounts))

RECURSIVE C13_SentTo(_, _, _)
C13_SentTo(recipients, amounts, h) ==
    IF recipients = <<>> THEN 0
    ELSE (IF Head(recipients) = h THEN Head(amounts) ELSE 0)
         + C13_SentTo(Tail(recipients), Tail(amounts), h)

\* Inputs that are well formed and covered by the faucet's balance.
C13_Admissible(recipients, amounts) ==
    /\ Len(recipients) = Len(amounts)
    /\ Len(recipients) > 0
    /\ \A i \in 1..Len(recipients) : recipients[i] # ZERO /\ amounts[i] > 0
    /\ C13_Total(amounts) <= balances[FAUCET]

\* C13: a successful batchDistribute by the administrator pays amounts[i] to
\* recipients[i] for every i, lowers the faucet's balance by the sum, emits
\* TokensRequested(recipients[i], amounts[i], now) per entry in input order
\* and changes nothing but ledger balances; well-formed inputs the balance
\* covers succeed whatever the pause flag, the daily total and the
\* recipients' blacklist flags, cooldowns and lifetime totals.
C13_BatchDistributes ==
    \A b \in BatchInputs :
      LET recipients == b[1]
          amounts == b[2]
          r == batchDistributeCall(World, owner, recipients, amounts, now)
      IN /\ C13_Admissible(recipients, amounts) => r.outcome = "ok"
         /\ r.outcome = "ok" =>
              /\ \A h \in Holders \ {FAUCET} :
                   r.w.balances[h] = balances[h] + C13_SentTo(recipients, amounts, h)
              /\ r.w.balances[FAUCET] = balances[FAUCET] - C13_Total(amounts)
              /\ Len(r.logs) = Len(recipients)
              /\ \A i \in 1..Len(recipients) :
                   r.logs[i] = TokensRequested(recipients[i], amounts[i], now)
              /\ r.w = [World EXCEPT !.balances = r.w.balances]

\* A batch has paid user1, who is blacklisted, in cooldown and at the
\* lifetime cap, while the faucet was paused.
C13_Witness ==
    /\ last = [op |-> "batchDistribute", sender |-> "owner", outcome |-> "ok"]
    /\ logs = <<TokensRequested("user1", 1, now)>>
    /\ blacklisted["user1"]
    /\ InCooldown("user1")
    /\ totalTokensReceived["user1"] = maxTokensPerAddress
    /\ paused

\* ---------------------------------------------------------------------- C14
\* The failure of the first entry, in input order, that is refused: a null
\* recipient, then an amount of zero.
RECURSIVE C14_FirstBadEntry(_, _)
C14_FirstBadEntry(recipients, amounts) ==
    IF recipients = <<>> THEN "ok"
    ELSE IF Head(recipients) = ZERO THEN "InvalidRecipient"
    ELSE IF Head(amounts) = 0 THEN "InvalidAmount"
    ELSE C14_FirstBadEntry(Tail(recipients), Tail(amounts))

C14_HasNull(recipients) == \E i \in 1..Len(recipients) : recipients[i] = ZERO

\* C14 as stated: the administrator's batchDistribute fails LengthMismatch,
\* EmptyInput, InsufficientFaucetBalance or InvalidRecipient, in that order of
\* examination, and has no other input failure; a failed call keeps nothing.
C14_OnlyFourFailures ==
    \A b \in BatchInputs :
      LET recipients == b[1]
          amounts == b[2]
          r == batchDistributeCall(World, owner, recipients, amounts, now)
      IN /\ r.outcome =
              (IF Len(recipients) # Len(amounts) THEN "LengthMismatch"
               ELSE IF Len(recipients) = 0 THEN "EmptyInput"
               ELSE IF C13_Total(amounts) > balances[FAUCET]
                    THEN "InsufficientFaucetBalance"
               ELSE IF C14_HasNull(recipients) THEN "InvalidRecipient"
               ELSE "ok")
         /\ r.outcome # "ok" => (r.w = World /\ r.logs = <<>>)

\* C14 amended: the administrator's batchDistribute fails LengthMismatch when
\* the lengths differ, else EmptyInput when the lists are empty, else with an
\* arithmetic panic when the sum of the amounts leaves the unsigned range,
\* else InsufficientFaucetBalance when the sum exceeds the faucet's balance,
\* else at the first entry with a null recipient (InvalidRecipient) or an
\* amount of zero (InvalidAmount); every other input succeeds, and a failed
\* call keeps none of the transfers or records of earlier entries.
C14_BatchFailures ==
    \A b \in BatchInputs :
      LET recipients == b[1]
          amounts == b[2]
          r == batchDistributeCall(World, owner, recipients, amounts, now)
      IN /\ r.outcome =
              (IF Len(recipients) # Len(amounts) THEN "LengthMismatch"
               ELSE IF Len(recipients) = 0 THEN "EmptyInput"
               ELSE IF C13_Total(amounts) > UINT_MAX THEN "Panic"
               ELSE IF C13_Total(amounts) > balances[FAUCET]
                    THEN "InsufficientFaucetBalance"
               ELSE C14_FirstBadEntry(recipients, amounts))
         /\ r.outcome # "ok" => (r.w = World /\ r.logs = <<>>)

\* A batch the balance covered has failed at its second entry, after the
\* transfer of the first.
C14_Witness ==
    /\ last = [op |-> "batchDistribute", sender |-> "owner", outcome |-> "InvalidAmount"]
    /\ balances[FAUCET] = 2
    /\ logs = <<>>


\* ---------------------------------------------------------------------- C15
\* The ledger after amount has moved from holder from to holder to.
C15_Moved(from, to, amount) ==
    [h \in Holders |-> IF h = from THEN balances[h] - amount
                       ELSE IF h = to THEN balances[h] + amount
                       ELSE balances[h]]

\* C15: withdrawTokens(amount) by the administrator fails InvalidAmount when
\* amount is 0 and InsufficientFaucetBalance when amount exceeds the faucet's
\* balance, changing nothing; otherwise, whatever the pause flag, it moves
\* exactly amount from the faucet to the administrator, emits
\* TokensWithdrawn(administrator, amount) and changes nothing else.
C15_WithdrawTokens ==
    \A amount \in TransferAmounts :
      LET r == withdrawTokensCall(World, owner, amount)
      IN IF amount = 0
         THEN r.outcome = "InvalidAmount" /\ r.w = World /\ r.logs = <<>>
         ELSE IF amount > balances[FAUCET]
         THEN r.outcome = "InsufficientFaucetBalance" /\ r.w = World /\ r.logs = <<>>
         ELSE /\ r.outcome = "ok"
              /\ r.w = [World EXCEPT !.balances = C15_Moved(FAUCET, owner, amount)]
              /\ r.logs = <<TokensWithdrawn(owner, amount)>>

\* The administrator has withdrawn the faucet's full balance while paused.
C15_Witness ==
    /\ last = [op |-> "withdrawTokens", sender |-> "owner", outcome |-> "ok"]
    /\ logs = <<TokensWithdrawn("owner", 2)>>
    /\ balances[FAUCET] = 0
    /\ paused

\* ---------------------------------------------------------------------- C16
\* What C16 states of an emergencyWithdraw that is not refused.
C16_Moves(r, ledgerRef, amount) ==
    /\ r.outcome = "ok"
    /\ r.w = [World EXCEPT !.balances = C15_Moved(FAUCET, owner, amount)]
    /\ r.logs = <<EmergencyWithdraw(ledgerRef, amount)>>

\* C16 as stated, for a ledger that exists: emergencyWithdraw(ledgerRef,
\* amount) by the administrator fails InvalidAmount when amount is 0 and
\* InsufficientFaucetBalance when the faucet's balance is below amount;
\* otherwise it moves amount to the administrator and emits
\* EmergencyWithdraw(ledgerRef, amount), changing nothing else.
C16_FailsInsufficientBalance ==
    \A amount \in TransferAmounts :
      LET r == emergencyWithdrawCall(World, owner, TOKEN, amount)
      IN IF amount = 0 THEN r.outcome = "InvalidAmount" /\ r.w = World
         ELSE IF balances[FAUCET] < amount
         THEN r.outcome = "InsufficientFaucetBalance" /\ r.w = World
         ELSE C16_Moves(r, TOKEN, amount)

\* C16 amended: emergencyWithdraw(ledgerRef, amount) by the administrator
\* fails InvalidAddress when ledgerRef is null, else InvalidAmount when amount
\* is 0; it makes no balance check of its own, so that when the faucet's
\* balance in the ledger is below amount the ledger refuses the transfer and
\* the call fails LedgerTransferFailed; a failed call changes nothing.
\* Otherwise it moves amount to the administrator and emits
\* EmergencyWithdraw(ledgerRef, amount), changing nothing else.
C16_EmergencyWithdraw ==
    \A ledgerRef \in LedgerInputs, amount \in TransferAmounts :
      LET r == emergencyWithdrawCall(World, owner, ledgerRef, amount)
      IN IF ledgerRef = ZERO
         THEN r.outcome = "InvalidAddress" /\ r.w = World /\ r.logs = <<>>
         ELSE IF amount = 0
         THEN r.outcome = "InvalidAmount" /\ r.w = World /\ r.logs = <<>>
         ELSE IF balances[FAUCET] < amount
         THEN r.outcome = "LedgerTransferFailed" /\ r.w = World /\ r.logs = <<>>
         ELSE C16_Moves(r, ledgerRef, amount)

\* The ledger has refused an emergencyWithdraw of more than the faucet holds.
C16_Witness ==
    /\ last = [op |-> "emergencyWithdraw", sender |-> "owner",
               outcome |-> "LedgerTransferFailed"]
    /\ balances[FAUCET] = 1

\* ---------------------------------------------------------------------- C17
\* C17: depositTokens(amount) by any caller, whatever the pause flag and the
\* caller's blacklist flag, fails InvalidAmount when amount is 0 and fails
\* when the caller's allowance to the faucet or balance is below amount,
\* changing nothing; otherwise it moves exactly amount from the caller to
\* the faucet, emits TokensDeposited(caller, amount) and changes no
\* configuration, epoch or user-record field.
C17_DepositTokens ==
    \A caller \in Accounts, amount \in TransferAmounts,
       pauseFlag \in BOOLEAN, listed \in BOOLEAN :
      LET w == [World EXCEPT !.paused = pauseFlag, !.blacklisted[caller] = listed]
          r == depositTokensCall(w, caller, amount)
      IN IF amount = 0
         THEN r.outcome = "InvalidAmount" /\ r.w = w /\ r.logs = <<>>
         ELSE IF allowance[caller] < amount \/ balances[caller] < amount
         THEN r.outcome = "LedgerTransferFailed" /\ r.w = w /\ r.logs = <<>>
         ELSE /\ r.outcome = "ok"
              /\ r.w.balances = C15_Moved(caller, FAUCET, amount)
              /\ r.logs = <<TokensDeposited(caller, amount)>>
              /\ r.w = [w EXCEPT !.balances = r.w.balances,
                                 !.allowance = r.w.allowance]
              /\ r.w.allowance[caller] \in {allowance[caller], allowance[caller] - amount}
              /\ \A h \in Holders \ {caller} : r.w.allowance[h] = allowance[h]

\* A deposit of 2 has been accepted while the faucet was paused.
C17_Witness ==
    /\ last = [op |-> "depositTokens", sender |-> "owner", outcome |-> "ok"]
    /\ logs = <<TokensDeposited("owner", 2)>>
    /\ paused
    /\ balances[FAUCET] >= 2


\* ---------------------------------------------------------------------- C18
ViewOps == {"getUserInfo", "getFaucetBalance", "getFaucetConfig", "canUserRequest"}

\* C18: a call of getUserInfo, getFaucetBalance, getFaucetConfig or
\* canUserRequest changes no storage and emits no record, and a getUserInfo
\* that directly follows a getUserInfo for the same address at the same time
\* ends the same way with the same values.
C18_QueriesChangeNothing ==
    [][ /\ last'.op \in ViewOps => (UNCHANGED storage /\ logs' = <<>>)
        /\ (/\ last.op = "getUserInfo" /\ last'.op = "getUserInfo"
            /\ last'.sender = last.sender /\ now' = now)
             => (returned' = returned /\ last'.outcome = last.outcome) ]_vars

\* getUserInfo has answered for user1, who has received a payout.
C18_Witness ==
    /\ last = [op |-> "getUserInfo", sender |-> "user1", outcome |-> "ok"]
    /\ Len(returned) = 4
    /\ returned[1] > 0
    /\ returned[1] = totalTokensReceived["user1"]
    /\ returned[2] = lastRequestTime["user1"]

\* ---------------------------------------------------------------------- C19
\* The stored daily total leaves room for a payout (no reset applied).
C19_StoredDailyRoom == totalDistributedToday + tokensPerRequest <= dailyLimit

\* The three sums the eligibility logic compares fit the unsigned range.
C19_SumsFit(u) ==
    /\ CooldownSumFits(u)
    /\ totalTokensReceived[u] + tokensPerRequest <= UINT_MAX
    /\ totalDistributedToday + tokensPerRequest <= UINT_MAX

C20_Wait(u, wait) ==
    LET due == lastRequestTime[u] + cooldownTime
    IN /\ wait = (IF due - now > 0 THEN due - now ELSE 0)
       /\ wait > 0 <=> InCooldown(u)
       /\ now + wait >= due
       /\ wait > 0 => now + wait - 1 < due

\* C20 as stated: for every address and time getUserInfo returns
\* secondsUntilNextRequest = max(0, lastRequestTime + cooldownSeconds - now),
\* positive exactly when the cooldown check would fail, and equal to the
\* remaining wait.
C20_AlwaysReturnsWait ==
    \A u \in Accounts :
      LET r == getUserInfoCall(World, u, now)
      IN r.outcome = "ok" /\ C20_Wait(u, r.ret[4])

\* C20 amended: whenever getUserInfo returns, secondsUntilNextRequest is
\* max(0, lastRequestTime + cooldownSeconds - now), positive exactly when the
\* cooldown check would fail, and the remaining wait; it returns whenever
\* the three sums of the eligibility logic fit the unsigned range, and fails
\* with an arithmetic panic when lastRequestTime + cooldownSeconds does not.
C20_SecondsUntilNext ==
    \A u \in Accounts :
      LET r == getUserInfoCall(World, u, now)
      IN /\ ~CooldownSumFits(u) => r.outcome = "Panic"
         /\ C19_SumsFit(u) => r.outcome = "ok"
         /\ r.outcome = "ok" => C20_Wait(u, r.ret[4])

\* getUserInfo has told user1, inside the cooldown, to wait one time step.
C20_Witness ==
    /\ last = [op |-> "getUserInfo", sender |-> "user1", outcome |-> "ok"]
    /\ Len(returned) = 4
    /\ returned[4] = TimeStep
    /\ InCooldown("user1")

\* ---------------------------------------------------------------------- C21
\* An addition of the eligibility logic that leaves the unsigned range.
C21_Exceeds(a, b) == a + b > UINT_MAX

\* The eligibility logic for address u reaches an addition that leaves the
\* range: it stops at the pause flag and the blacklist before any sum, at
\* the cooldown before the lifetime sum, at the lifetime cap before the
\* daily sum.
C21_EligibilityOverflows(u) ==
    /\ ~paused
    /\ ~blacklisted[u]
    /\ \/ C21_Exceeds(lastRequestTime[u], cooldownTime)
       \/ /\ now >= lastRequestTime[u] + cooldownTime
          /\ \/ C21_Exceeds(totalTokensReceived[u], tokensPerRequest)
             \/ /\ totalTokensReceived[u] + tokensPerRequest <= maxTokensPerAddress
                /\ C21_Exceeds(totalDistributedToday, tokensPerRequest)

\* C21 as stated: getUserInfo and canUserRequest return a result for every
\* address in every reachable state, also when lastRequestTime +
\* cooldownSeconds, totalReceived + tokensPerRequest or totalDistributedToday
\* + tokensPerRequest exceeds the unsigned range.
C21_QueriesNeverFail ==
    \A u \in Accounts :
        /\ getUserInfoCall(World, u, now).outcome = "ok"
        /\ canUserRequestCall(World, u, now).outcome = "ok"

\* C21 amended: getFaucetBalance and getFaucetConfig never fail;
\* canUserRequest(address) fails, with an arithmetic panic, exactly when the
\* eligibility logic reaches a sum that exceeds the unsigned range (it is
\* not paused, the address is not blacklisted, and lastRequestTime +
\* cooldownSeconds overflows, or the cooldown has elapsed and totalReceived +
\* tokensPerRequest overflows, or the lifetime cap is met and
\* totalDistributedToday + tokensPerRequest overflows); getUserInfo(address)
\* fails exactly when lastRequestTime + cooldownSeconds overflows or
\* canUserRequest fails; in every other state both return a result, and a
\* query that fails changes nothing.
C21_QueriesFailOnOverflowOnly ==
    /\ getFaucetBalanceCall(World).outcome = "ok"
    /\ getFaucetConfigCall(World).outcome = "ok"
    /\ \A u \in Accounts :
         LET q == canUserRequestCall(World, u, now)
             g == getUserInfoCall(World, u, now)
         IN /\ q.outcome = (IF C21_EligibilityOverflows(u) THEN "Panic" ELSE "ok")
            /\ g.outcome = (IF \/ C21_Exceeds(lastRequestTime[u], cooldownTime)
                               \/ C21_EligibilityOverflows(u)
                            THEN "Panic" ELSE "ok")
            /\ q.w = World /\ g.w = World
            /\ q.outcome = "ok" => Len(q.ret) = 1
            /\ g.outcome = "ok" => Len(g.ret) = 4

\* canUserRequest has failed for an address that never requested, on the sum
\* of the day's total and a payout of the largest value.
C21_Witness ==
    /\ last.op = "canUserRequest"
    /\ last.outcome = "Panic"
    /\ totalTokensReceived[last.sender] = 0
    /\ C21_Exceeds(totalDistributedToday, tokensPerRequest)

\* ---------------------------------------------------------------------- C22
\* Everything but the blacklist flags is the same in storage w as now.
C22_RestUnchanged(w) ==
    /\ w.totalTokensReceived = totalTokensReceived
    /\ w.lastRequestTime = lastRequestTime
    /\ w.tokensPerRequest = tokensPerRequest
    /\ w.cooldownTime = cooldownTime
    /\ w.maxTokensPerAddress = maxTokensPerAddress
    /\ w.dailyLimit = dailyLimit
    /\ w.totalDistributedToday = totalDistributedToday
    /\ w.lastResetTime = lastResetTime
    /\ w.paused = paused
    /\ w.owner = owner
    /\ w.balances = balances
    /\ w.allowance = allowance
    /\ w.totalSupply = totalSupply
    /\ w.cap = cap
    /\ w.tokenOwner = tokenOwner
    /\ w.tokenPaused = tokenPaused

\* C22: setBlacklisted(address, flag) by the administrator fails
\* InvalidAddress on the null address, changing nothing; otherwise it
\* succeeds, sets the flag of the address to flag, emits exactly
\* UserBlacklisted(address, flag), and leaves the totals and request times of
\* every address, the flags of the other addresses, the configuration, the
\* epoch counters and all balances as they were; when the flag already has
\* that value the whole storage is as before.
C22_SetBlacklisted ==
    \A user \in Accounts \cup {ZERO}, flag \in BOOLEAN :
      LET r == setBlacklistedCall(World, owner, user, flag)
      IN IF user = ZERO
         THEN r.outcome = "InvalidAddress" /\ r.w = World /\ r.logs = <<>>
         ELSE /\ r.outcome = "ok"
              /\ r.w.blacklisted[user] = flag
              /\ \A a \in Accounts \ {user} : r.w.blacklisted[a] = blacklisted[a]
              /\ r.logs = << <<"UserBlacklisted", user, flag>> >>
              /\ C22_RestUnchanged(r.w)
              /\ blacklisted[user] = flag => r.w = World

\* The administrator has set the flag of user1, who has received tokens and
\* keeps the record of them.
C22_Witness ==
    /\ last = [op |-> "setBlacklisted", sender |-> owner, outcome |-> "ok"]
    /\ logs = << <<"UserBlacklisted", "user1", TRUE>> >>
    /\ blacklisted["user1"]
    /\ totalTokensReceived["user1"] > 0
    /\ lastRequestTime["user1"] > 0

\* ---------------------------------------------------------------------- C23
\* Times at and after now at which the next implicit reset is examined.
C23_LaterTimes == {now, now + TimeStep, now + DAY - 1, now + DAY, now + DAY + TimeStep}

\* C23: resetDailyLimit by the administrator succeeds in every reachable
\* state, within 24h of epochStart as after it and whatever the pause flag;
\* it sets totalDistributedToday = 0 and epochStart = now, emits exactly
\* DailyLimitReset(now, previousTotal) with the total from just before,
\* changes no other field, and the implicit reset of a later request then
\* fires at the times from now + 24h on and at none before.
C23_ResetDailyLimit ==
    LET r == resetDailyLimitCall(World, owner, now)
    IN /\ r.outcome = "ok"
       /\ r.w.totalDistributedToday = 0
       /\ r.w.lastResetTime = now
       /\ r.logs = << <<"DailyLimitReset", now, totalDistributedToday>> >>
       /\ r.w = [World EXCEPT !.totalDistributedToday = 0, !.lastResetTime = now]
       /\ \A t \in C23_LaterTimes :
            LET n == _resetDailyLimitIfNeeded(r.w, t)
            IN IF t >= now + DAY
               THEN n.logs = << <<"DailyLimitReset", t, 0>> >> /\ n.w.lastResetTime = t
               ELSE n.logs = <<>> /\ n.w = r.w

\* The administrator has reset a day on which tokens were distributed,
\* before 24h of it had passed.
C23_Witness ==
    /\ last = [op |-> "resetDailyLimit", sender |-> owner, outcome |-> "ok"]
    /\ Len(logs) = 1
    /\ logs[1][1] = "DailyLimitReset"
    /\ logs[1][3] > 0
    /\ totalDistributedToday = 0
    /\ lastResetTime = now
    /\ now < StartTime + DAY

\* ---------------------------------------------------------------------- C30
\* C30: a requestTokens called at now >= epochStart + 24h that passes checks
\* 1-5 while the faucet holds less than a payout fails
\* InsufficientFaucetBalance (the reset having made room under the daily
\* cap), and the reset it performed does not persist: epochStart and
\* totalDistributedToday keep their values from before the call and the
\* transaction emits no DailyLimitReset, nor any other record.
C30_FailedRequestKeepsEpoch ==
    [][(/\ IsCall("requestTokens")
        /\ EpochOver
        /\ PassesChecks1To5(last'.sender)
        /\ FaucetShort)
       => /\ last'.outcome = "InsufficientFaucetBalance"
          /\ lastResetTime' = lastResetTime
          /\ totalDistributedToday' = totalDistributedToday
          /\ ~HasReset(logs')
          /\ logs' = <<>>]_vars

\* A request of user1 has failed on the faucet's balance a day after the
\* epoch began; the day's total, which leaves no room under the daily cap,
\* and the epoch's start are still the stored ones.
C30_Witness ==
    /\ last = [op |-> "requestTokens", sender |-> "user1",
               outcome |-> "InsufficientFaucetBalance"]
    /\ now >= lastResetTime + DAY
    /\ totalDistributedToday > 0
    /\ totalDistributedToday + tokensPerRequest > dailyLimit
    /\ logs = <<>>

TokenExists == tokenOwner # ZERO

\* C26 as stated, its sentence on mint: whenever totalSupply + amount > cap
\* the owner's mint to a holder fails with cap exceeded.
C26_MintFailsCapExceeded ==
    TokenExists =>
      \A to \in MintRecipients \ {ZERO}, amount \in TransferAmounts :
        totalSupply + amount > cap =>
          mintCall(World, tokenOwner, to, amount).outcome = "CapExceeded"

\* C26 amended: in every state reachable by construction, mint, batchMint,
\* burn, transfer, pause and unpause, totalSupply <= cap; a construction
\* fails, leaving no token, when cap == 0 or initialSupply > cap, and
\* otherwise gives the deployer initialSupply under that cap; the owner's
\* mint to a holder fails, changing nothing, when totalSupply + amount > cap:
\* with cap exceeded when the sum fits the unsigned range, with an
\* arithmetic panic when it does not; and remainingMintableSupply returns
\* cap - totalSupply and never fails.
C26_SupplyCap ==
    /\ totalSupply <= cap
    /\ ~TokenExists =>
         \A sender \in Senders, c \in TokenConstructorInputs :
           LET r == tokenConstructorCall(World, sender, c[1], c[2])
           IN IF c[2] = 0 \/ c[1] > c[2]
              THEN r.outcome \in {"CapZero", "InitialSupplyExceedsCap"} /\ r.w = World
              ELSE /\ r.outcome = "ok"
                   /\ r.w.totalSupply = c[1]
                   /\ r.w.cap = c[2]
                   /\ r.w.balances[sender] = c[1]
                   /\ r.w.tokenOwner = sender
    /\ TokenExists =>
         /\ \A to \in MintRecipients \ {ZERO}, amount \in TransferAmounts :
              LET r == mintCall(World, tokenOwner, to, amount)
              IN IF totalSupply + amount > cap
                 THEN /\ r.outcome = (IF totalSupply + amount > UINT_MAX
                                      THEN "Panic" ELSE "CapExceeded")
                      /\ r.w = World
                 ELSE r.outcome = (IF tokenPaused THEN "EnforcedPause" ELSE "ok")
         /\ LET q == remainingMintableSupplyCall(World)
            IN /\ q.outcome = "ok"
               /\ q.ret = <<cap - totalSupply>>
               /\ q.ret[1] >= 0

\* With the whole cap minted, a mint of the owner has failed cap exceeded.
C26_Witness ==
    /\ TokenExists
    /\ last = [op |-> "mint", sender |-> tokenOwner, outcome |-> "CapExceeded"]
    /\ totalSupply = cap

\* ---------------------------------------------------------------------- C27
\* The sum of the amounts of the Mint records of evs.
RECURSIVE C27_Minted(_)
C27_Minted(evs) ==
    IF evs = <<>> THEN 0
    ELSE (IF Head(evs)[1] = "Mint" THEN Head(evs)[3] ELSE 0) + C27_Minted(Tail(evs))

\* The sum of the amounts burned according to evs: its transfers to the zero
\* address.
RECURSIVE C27_Burned(_)
C27_Burned(evs) ==
    IF evs = <<>> THEN 0
    ELSE (IF Head(evs)[1] = "Transfer" /\ Head(evs)[3] = ZERO THEN Head(evs)[4] ELSE 0)
         + C27_Burned(Tail(evs))

\* C27: the construction sets totalSupply to the initial supply, and every
\* later transaction changes totalSupply by the sum of the amounts of the
\* Mint records it emits minus the amount it burns, so that after any
\* sequence of mint, batchMint and burn totalSupply is the initial supply
\* plus all amounts minted minus all amounts burned; a successful burn of
\* amount by a holder reduces that holder's balance and totalSupply by
\* exactly amount and no other balance; a mint by anyone but the owner fails
\* and changes nothing.
C27_SupplyAccounting ==
    [][/\ (IsCall("token.constructor") /\ Succeeds) =>
            /\ totalSupply' = balances'[last'.sender]
            /\ \A h \in Holders \ {last'.sender} : balances'[h] = 0
            /\ C27_Minted(logs') = 0
       /\ ~IsCall("token.constructor") =>
            totalSupply' = totalSupply + C27_Minted(logs') - C27_Burned(logs')
       /\ (IsCall("burn") /\ Succeeds) =>
            /\ Len(logs') = 1
            /\ totalSupply' = totalSupply - logs'[1][4]
            /\ balances'[last'.sender] = balances[last'.sender] - logs'[1][4]
            /\ \A h \in Holders \ {last'.sender} : balances'[h] = balances[h]
       /\ (IsCall("burn") /\ ~Succeeds) => UNCHANGED storage
       /\ (IsCall("mint") /\ last'.sender # tokenOwner) =>
            /\ last'.outcome = "Unauthorized"
            /\ logs' = <<>>
            /\ UNCHANGED storage]_vars

\* user1, who is not the owner, has burned two tokens minted to it.
C27_Witness ==
    /\ last = [op |-> "burn", sender |-> "user1", outcome |-> "ok"]
    /\ tokenOwner = "owner"
    /\ logs = << <<"Transfer", "user1", ZERO, 2>> >>
    /\ totalSupply > 0

\* ---------------------------------------------------------------------- C28
\* The Mint records of evs, in order.
C28_MintRecords(evs) == SelectSeq(evs, LAMBDA e : e[1] = "Mint")

\* The inputs that C28 names as failing.
C28_Rejected(recipients, amounts) ==
    \/ Len(recipients) # Len(amounts)
    \/ Len(recipients) = 0
    \/ totalSupply + C13_Total(amounts) > cap
    \/ \E i \in 1..Len(recipients) : recipients[i] = ZERO

\* C28: batchMint(recipients, amounts) by the owner fails on a length
\* mismatch, on empty input, when totalSupply + sum(amounts) > cap, and when a
\* recipient is the zero address, in each case with no balance, no supply
\* and no record changed, also when earlier entries of the batch were
\* valid; on success every address gains the amounts of its entries,
\* totalSupply grows by their sum, and the Mint records emitted are
\* Mint(recipients[i], amounts[i]), one per entry, in input order.  A batch
\* that is not rejected succeeds unless the token is paused.
C28_BatchMint ==
    TokenExists =>
      \A b \in BatchMintInputs :
        LET recipients == b[1]
            amounts == b[2]
            r == batchMintCall(World, tokenOwner, recipients, amounts)
        IN IF C28_Rejected(recipients, amounts)
           THEN /\ r.outcome \in {"LengthMismatch", "EmptyInput", "CapExceeded",
                                  "Panic", "MintToZeroAddress"}
                                 \cup (IF tokenPaused THEN {"EnforcedPause"} ELSE {})
                /\ r.w = World
                /\ r.logs = <<>>
           ELSE IF tokenPaused
           THEN r.outcome = "EnforcedPause" /\ r.w = World /\ r.logs = <<>>
           ELSE /\ r.outcome = "ok"
                /\ \A h \in Holders :
                     r.w.balances[h] = balances[h] + C13_SentTo(recipients, amounts, h)
                /\ r.w.totalSupply = totalSupply + C13_Total(amounts)
                /\ r.w = [World EXCEPT !.balances = r.w.balances,
                                       !.totalSupply = r.w.totalSupply]
                /\ C28_MintRecords(r.logs) =
                     [i \in 1..Len(recipients) |-> <<"Mint", recipients[i], amounts[i]>>]

\* A batch of two entries has been minted to two holders.
C28_Witness ==
    /\ last = [op |-> "batchMint", sender |-> tokenOwner, outcome |-> "ok"]
    /\ C28_MintRecords(logs) = << <<"Mint", "user1", 1>>, <<"Mint", "owner", 2>> >>
    /\ balances["user1"] >= 1
    /\ balances["owner"] >= 2
    /\ totalSupply <= cap

\* ---------------------------------------------------------------------- C29
\* The balances after value has moved from one holder to another.
C29_Moved(from, to, value) ==
    [h \in Holders |->
        balances[h] - (IF h = from THEN value ELSE 0) + (IF h = to THEN value ELSE 0)]

\* C29: while the token is paused every transfer, of any amount by any
\* holder to any address, fails and changes nothing; after the owner's
\* unpause the same transfer, to a holder and covered by the sender's
\* balance, succeeds and moves the amount; pause and unpause by anyone but
\* the token's owner fail and change nothing, and the owner's pause and
\* unpause succeed when the token is in the other state.
C29_TokenPause ==
    TokenExists =>
      /\ tokenPaused =>
           LET u == tokenUnpauseCall(World, tokenOwner)
           IN /\ u.outcome = "ok"
              /\ u.w = [World EXCEPT !.tokenPaused = FALSE]
              /\ \A sender \in Senders, to \in TransferRecipients,
                    value \in TransferAmounts :
                   LET r == tokenTransferCall(World, sender, to, value)
                       r2 == tokenTransferCall(u.w, sender, to, value)
                   IN /\ r.outcome # "ok"
                      /\ r.w = World
                      /\ r.logs = <<>>
                      /\ (to # ZERO /\ balances[sender] >= value) =>
                           /\ r.outcome = "EnforcedPause"
                           /\ r2.outcome = "ok"
                           /\ r2.w.balances = C29_Moved(sender, to, value)
      /\ ~tokenPaused =>
           LET p == tokenPauseCall(World, tokenOwner)
           IN p.outcome = "ok" /\ p.w = [World EXCEPT !.tokenPaused = TRUE]
      /\ \A sender \in Senders \ {tokenOwner} :
           LET p == tokenPauseCall(World, sender)
               u == tokenUnpauseCall(World, sender)
           IN /\ p.outcome = "Unauthorized" /\ p.w = World
              /\ u.outcome = "Unauthorized" /\ u.w = World

\* A transfer of a holder with a balance has failed on the paused token.
C29_Witness ==
    /\ last = [op |-> "token.transfer", sender |-> "user1", outcome |-> "EnforcedPause"]
    /\ tokenPaused
    /\ balances["user1"] > 0
    /\ tokenOwner = "owner"

\* ---------------------------------------------------------------------- C24
\* requestTokens of address u passes its eight checks.
C24_PassesAllChecks(u) ==
    /\ PassesChecks1To5(u)
    /\ CooldownSumFits(u)
    /\ totalTokensReceived[u] + tokensPerRequest <= UINT_MAX
    /\ ~OverDailyCap
    /\ ~FaucetShort

\* C24: while the token is paused, so that the ledger refuses every transfer
\* and transferFrom, each operation of the faucet that reaches its transfer
\* fails LedgerTransferFailed and changes nothing: a requestTokens that
\* passes its eight checks, a batchDistribute of the administrator covered by
\* the balance, a withdrawTokens and an emergencyWithdraw of a positive
\* amount, a depositTokens of a positive amount by any caller.  After the
\* failed requestTokens, lastRequestTime[caller], totalReceived[caller],
\* totalDistributedToday and epochStart have their values from before the
\* call.
C24_LedgerFailure ==
    tokenPaused =>
      /\ \A u \in Requesters : \A origin \in Origins(u) :
           LET r == requestTokensCall(World, u, origin, now)
           IN /\ r.outcome # "ok"
              /\ r.w.lastRequestTime = lastRequestTime
              /\ r.w.totalTokensReceived = totalTokensReceived
              /\ r.w.totalDistributedToday = totalDistributedToday
              /\ r.w.lastResetTime = lastResetTime
              /\ r.w.balances = balances
              /\ r.logs = <<>>
              /\ C24_PassesAllChecks(u) => r.outcome = "LedgerTransferFailed"
      /\ \A b \in BatchInputs :
           LET r == batchDistributeCall(World, owner, b[1], b[2], now)
           IN /\ r.outcome # "ok" /\ r.w = World
              /\ (C13_Admissible(b[1], b[2]) /\ b[1][1] # ZERO /\ b[2][1] > 0) =>
                   r.outcome = "LedgerTransferFailed"
      /\ \A amount \in TransferAmounts \ {0} :
           LET wd == withdrawTokensCall(World, owner, amount)
               ew == emergencyWithdrawCall(World, owner, TOKEN, amount)
           IN /\ wd.outcome # "ok" /\ wd.w = World
              /\ amount <= balances[FAUCET] => wd.outcome = "LedgerTransferFailed"
              /\ ew.outcome = "LedgerTransferFailed" /\ ew.w = World
              /\ \A sender \in Senders :
                   LET dp == depositTokensCall(World, sender, amount)
                   IN dp.outcome = "LedgerTransferFailed" /\ dp.w = World

\* On the paused token a request of user1 that passed every check has failed
\* in the transfer of a funded faucet, a day after the epoch began.
C24_Witness ==
    /\ tokenPaused
    /\ last = [op |-> "requestTokens", sender |-> "user1",
               outcome |-> "LedgerTransferFailed"]
    /\ C24_PassesAllChecks("user1")
    /\ EpochOver
    /\ totalDistributedToday > 0

\* ---------------------------------------------------------------------- C31
\* C31: no requestTokens call made at a time now >= epochStart + 24h fails
\* DailyCapExceeded, whoever calls it, in any reachable state and under any
\* configuration: the implicit reset zeroes the total, and
\* dailyLimit >= tokensPerRequest > 0 holds in every reachable state.
C31_NoDailyCapFailureAfterEpoch ==
    /\ dailyLimit >= tokensPerRequest
    /\ tokensPerRequest > 0
    /\ \A u \in Accounts : \A origin \in EOA :
          now >= lastResetTime + DAY =>
             requestTokensCall(World, u, origin, now).outcome # "DailyCapExceeded"

\* A request of user1 has succeeded a day after the epoch began, although
\* the total stored before it left no room under the daily cap.
C31_Witness ==
    /\ last = [op |-> "requestTokens", sender |-> "user1", outcome |-> "ok"]
    /\ Len(logs) = 2
    /\ logs[1][1] = "DailyLimitReset"
    /\ logs[1][3] + tokensPerRequest > dailyLimit
    /\ logs[1][2] >= StartTime + DAY
    /\ totalDistributedToday = tokensPerRequest

\* ---------------------------------------------------------------------- C32
\* C32: whenever getUserInfo(A) reports canRequestNow = true at time t, a
\* requestTokens made by A as originating account at the same time t on the
\* same storage, the ledger not refusing the transfer, succeeds; and a
\* requestTokens of A that succeeds where the query does not report true is
\* made in a state with t >= epochStart + 24h and the stored
\* totalDistributedToday + tokensPerRequest > dailyLimit, in which the query
\* never reports true.
C32_EligibilitySound ==
    \A u \in EOA :
        LET q == getUserInfoCall(World, u, now)
            r == requestTokensCall(World, u, u, now)
            reportsTrue == q.outcome = "ok" /\ q.ret[3]
            staleTotal ==
                /\ now >= lastResetTime + DAY
                /\ totalDistributedToday + tokensPerRequest > dailyLimit
        IN /\ (reportsTrue /\ ~tokenPaused) => r.outcome = "ok"
           /\ (r.outcome = "ok" /\ ~reportsTrue) => staleTotal
           /\ staleTotal => ~reportsTrue

\* The query has just told user1 that it cannot request, a day after the
\* epoch began with the stored total leaving no room under the daily cap,
\* and a request of user1 at this time succeeds.
C32_Witness ==
    /\ last = [op |-> "getUserInfo", sender |-> "user1", outcome |-> "ok"]
    /\ returned[3] = FALSE
    /\ now >= lastResetTime + DAY
    /\ totalDistributedToday + tokensPerRequest > dailyLimit
    /\ requestTokensCall(World, "user1", "user1", now).outcome = "ok"

\* ---------------------------------------------------------------------- C33
\* The standing conditions of C33 for address A: the faucet unpaused and
\* holding a payout, A not blacklisted and below its lifetime cap.
C33_Stated(A) ==
    /\ ~paused
    /\ balances[FAUCET] >= tokensPerRequest
    /\ ~blacklisted[A]
    /\ totalTokensReceived[A] + tokensPerRequest <= maxTokensPerAddress

\* The last block time of a run, and the times the run reaches: the end of
\* the epoch and the end of A's cooldown.
C33_RunEnd == StartTime + MaxTicks * TimeStep
C33_EpochEndReached == lastResetTime + DAY <= C33_RunEnd
C33_CooldownEndReached(A) == lastRequestTime[A] + cooldownTime <= C33_RunEnd
C33_CooldownEndOutOfRange(A) == lastRequestTime[A] + cooldownTime > UINT_MAX
C33_CooldownPassed(A) == now >= lastRequestTime[A] + cooldownTime
C33_Served(A) == last = [op |-> "requestTokens", sender |-> A, outcome |-> "ok"]

\* The conditions under which C33 as stated promises a success within the
\* run: every cooldown end but one that the run does not reach while the
\* unsigned range does.
C33_Promised(A) ==
    /\ C33_Stated(A)
    /\ C33_EpochEndReached
    /\ C33_CooldownEndReached(A) \/ C33_CooldownEndOutOfRange(A)

\* C33 as stated: under the standing conditions a requestTokens by A (user1,
\* the owner being the other address that requests) eventually succeeds as
\* time advances, and for every A it succeeds at every time now with
\* now >= lastRequestTime[A] + cooldownSeconds and now >= epochStart + 24h.
C33_EventuallyServed ==
    /\ C33_Promised("user1") ~> (C33_Served("user1") \/ ~C33_Promised("user1"))
    /\ [](\A A \in EOA :
            (C33_Stated(A) /\ C33_CooldownPassed(A) /\ now >= lastResetTime + DAY)
               => requestTokensCall(World, A, A, now).outcome = "ok")

\* The conditions of the amended C33: the standing ones, the ledger
\* accepting the faucet's transfers, and both ends reached by the run.
C33_Awaited(A) ==
    /\ C33_Stated(A)
    /\ ~tokenPaused
    /\ C33_EpochEndReached
    /\ C33_CooldownEndReached(A)

\* C33 amended: under the standing conditions, the ledger accepting the
\* faucet's transfers and lastRequestTime[A] + cooldownSeconds being a time
\* that is reached (in particular within the unsigned range), a requestTokens
\* by A eventually succeeds as time advances; and it succeeds at every time
\* now with now >= lastRequestTime[A] + cooldownSeconds and
\* now >= epochStart + 24h at which the ledger accepts the transfer.
C33_EventuallyServedWhenReached ==
    /\ C33_Awaited("user1") ~> (C33_Served("user1") \/ ~C33_Awaited("user1"))
    /\ [](\A A \in EOA :
            (/\ C33_Stated(A) /\ ~tokenPaused
             /\ C33_CooldownPassed(A) /\ now >= lastResetTime + DAY)
               => requestTokensCall(World, A, A, now).outcome = "ok")

\* user1 has been served a day after the epoch began, its cooldown over,
\* after the owner had taken the whole of the day's limit.
C33_Witness ==
    /\ C33_Served("user1")
    /\ Len(logs) = 2
    /\ logs[1][1] = "DailyLimitReset"
    /\ logs[1][3] + tokensPerRequest > dailyLimit
    /\ totalTokensReceived["owner"] > 0
    /\ totalTokensReceived["user1"] = tokensPerRequest
    /\ lastRequestTime["owner"] < now

\* ---------------------------------------------------------------------- C34
\* C34: totalDistributedToday is the sum of the payouts of the successful
\* requestTokens calls since the most recent reset, explicit or implicit, or
\* since construction: it is zero after construction; a successful
\* requestTokens adds its payout to the total, from zero when the call itself
\* resets the epoch; a successful resetDailyLimit sets it to zero; no other
\* step changes it, the amounts moved by batchDistribute, withdrawTokens and
\* emergencyWithdraw included.
C34_TotalIsSumOfPayouts ==
    /\ [](last.op = "constructor" => totalDistributedToday = 0)
    /\ [][ LET payout == balances[FAUCET] - balances'[FAUCET] IN
           /\ (IsCall("requestTokens") /\ Succeeds) =>
                /\ payout = SumRequested(logs', last'.sender)
                /\ payout > 0
                /\ totalDistributedToday' =
                      (IF HasReset(logs') THEN 0 ELSE totalDistributedToday) + payout
           /\ (IsCall("resetDailyLimit") /\ Succeeds) => totalDistributedToday' = 0
           /\ ~(Succeeds /\ (IsCall("requestTokens") \/ IsCall("resetDailyLimit"))) =>
                totalDistributedToday' = totalDistributedToday ]_vars

\* batchDistribute has moved tokens out of the faucet in an epoch that a
\* request began, and the day's total is the payout of that request alone.
C34_Witness ==
    /\ last = [op |-> "batchDistribute", sender |-> "owner", outcome |-> "ok"]
    /\ Len(logs) > 0
    /\ lastResetTime > StartTime
    /\ lastResetTime = lastRequestTime["user1"]
    /\ totalDistributedToday = totalTokensReceived["user1"]
    /\ totalDistributedToday > 0

\* ---------------------------------------------------------------------- C35
\* A step that is a successful requestTokens called by A itself.
C35_OwnRequest(A) == IsCall("requestTokens") /\ Succeeds /\ last'.sender = A

\* C35: totalReceived[A] and lastRequestTime[A] change only in a successful
\* requestTokens called by A itself and never decrease while time does not
\* decrease; a requestTokens by A leaves totalReceived, lastRequestTime and
\* the blacklist flag of every other address unchanged; in every reachable
\* state lastRequestTime[A] <= now and epochStart <= now.
C35_AccountsIndependent ==
    /\ [](/\ \A A \in Accounts : lastRequestTime[A] <= now
          /\ lastResetTime <= now)
    /\ [][ \A A \in Accounts :
             /\ (\/ totalTokensReceived'[A] # totalTokensReceived[A]
                 \/ lastRequestTime'[A] # lastRequestTime[A]) => C35_OwnRequest(A)
             /\ totalTokensReceived'[A] >= totalTokensReceived[A]
             /\ lastRequestTime'[A] >= lastRequestTime[A]
             /\ (IsCall("requestTokens") /\ last'.sender # A) =>
                  /\ totalTokensReceived'[A] = totalTokensReceived[A]
                  /\ lastRequestTime'[A] = lastRequestTime[A]
                  /\ blacklisted'[A] = blacklisted[A] ]_vars

\* The owner has just been served, at a later time than user1 was, while
\* user1 is blacklisted; the records of user1 are those of its own request.
C35_Witness ==
    /\ last = [op |-> "requestTokens", sender |-> "owner", outcome |-> "ok"]
    /\ blacklisted["user1"]
    /\ totalTokensReceived["user1"] > 0
    /\ lastRequestTime["user1"] > 0
    /\ lastRequestTime["user1"] < lastRequestTime["owner"]
    /\ lastRequestTime["owner"] = now

\* ---------------------------------------------------------------------- C36
\* The outcome of a requestTokens by originating account u at time now when
\* the counters of the current state are judged against configuration c =
\* <<tokensPerRequest, cooldownSeconds, maxTokensPerAddress, dailyLimit>>, the
\* ledger accepting the transfer.
C36_Judged(u, c) ==
    IF paused THEN "Paused"
    ELSE IF blacklisted[u] THEN "Blacklisted"
    ELSE IF lastRequestTime[u] + c[2] > UINT_MAX THEN "Panic"
    ELSE IF now < lastRequestTime[u] + c[2] THEN "CooldownActive"
    ELSE IF totalTokensReceived[u] + c[1] > UINT_MAX THEN "Panic"
    ELSE IF totalTokensReceived[u] + c[1] > c[3] THEN "PerAddressCapExceeded"
    ELSE IF TotalAfterReset + c[1] > UINT_MAX THEN "Panic"
    ELSE IF TotalAfterReset + c[1] > c[4] THEN "DailyCapExceeded"
    ELSE IF balances[FAUCET] < c[1] THEN "InsufficientFaucetBalance"
    ELSE "ok"

\* C36: a configureFaucet of the administrator that succeeds changes the
\* four config fields and nothing else (totalDistributedToday, epochStart,
\* every lastRequestTime, totalReceived and blacklist flag, the pause flag
\* and all ledger balances keep their values) and one that fails changes
\* nothing; the next requestTokens is decided by the counters accumulated
\* under the old config against the new limits and the new cooldown.
C36_ConfigureFaucetFrame ==
    \A c \in ConfigInputs \cup ExtremeConfigInputs :
        LET r == configureFaucetCall(World, owner, c[1], c[2], c[3], c[4])
        IN IF r.outcome = "ok"
           THEN /\ r.w = [World EXCEPT !.tokensPerRequest = c[1],
                                       !.cooldownTime = c[2],
                                       !.maxTokensPerAddress = c[3],
                                       !.dailyLimit = c[4]]
                /\ r.w.totalDistributedToday = totalDistributedToday
                /\ r.w.lastResetTime = lastResetTime
                /\ r.w.lastRequestTime = lastRequestTime
                /\ r.w.totalTokensReceived = totalTokensReceived
                /\ r.w.blacklisted = blacklisted
                /\ r.w.paused = paused
                /\ r.w.balances = balances
                /\ \A u \in EOA :
                      requestTokensCall(r.w, u, u, now).outcome = C36_Judged(u, c)
           ELSE r.w = World /\ r.logs = <<>>

\* The administrator has lowered the lifetime cap below what user1 received
\* under the old one, and the next request of user1 fails on the new cap.
C36_Witness ==
    /\ last = [op |-> "configureFaucet", sender |-> "owner", outcome |-> "ok"]
    /\ totalTokensReceived["user1"] > maxTokensPerAddress
    /\ totalDistributedToday > 0
    /\ requestTokensCall(World, "user1", "user1", now).outcome = "PerAddressCapExceeded"

\* ---------------------------------------------------------------------- C37
\* The results of the invocations of requestTokens, batchDistribute,
\* depositTokens and withdrawTokens made on storage m at time now, by every
\* caller and with every argument.
C37_Invocations(m) ==
    {requestTokensCall(m, u, o, now) : u \in Accounts, o \in EOA}
    \cup {batchDistributeCall(m, s, b[1], b[2], now) : s \in Senders, b \in BatchInputs}
    \cup {depositTokensCall(m, s, a) : s \in Senders, a \in TransferAmounts}
    \cup {withdrawTokensCall(m, s, a) : s \in Senders, a \in TransferAmounts}

\* Every such invocation on m fails and leaves m as it is.
C37_NoneEnters(m) ==
    \A r \in C37_Invocations(m) : r.outcome # "ok" /\ r.w = m /\ r.logs = <<>>

\* The storage of every invocation of the four operations that is in
\* progress at its call to the ledger, started in the current state.
C37_InProgress ==
    {requestTokensAtTransfer(World, u, o, now) : u \in Accounts, o \in EOA}
    \cup {batchDistributeAtTransfer(World, s, b[1], b[2], now, k) :
             s \in Senders, b \in BatchInputs, k \in 1..2}
    \cup {depositTokensAtTransfer(World, s, a) : s \in Senders, a \in TransferAmounts}
    \cup {withdrawTokensAtTransfer(World, s, a) : s \in Senders, a \in TransferAmounts}

\* C37: while a requestTokens, batchDistribute, depositTokens or
\* withdrawTokens invocation is at the ledger call it makes, a nested
\* invocation of any of the four fails and changes nothing; and when
\* requestTokens issues its transfer the caller's lastRequestTime and
\* totalReceived and the day's total are already those of the finished call
\* while the balances are still those from before: the payout is never seen
\* with the counters at their old values.
C37_NoInterleaving ==
    /\ \A m \in C37_InProgress : m.reached => C37_NoneEnters(m.w)
    /\ \A u \in Accounts : \A o \in EOA :
          LET m == requestTokensAtTransfer(World, u, o, now)
              r == requestTokensCall(World, u, o, now)
          IN /\ m.reached <=> r.outcome \in {"ok", "LedgerTransferFailed"}
             /\ m.reached =>
                  /\ m.w.lastRequestTime[u] = now
                  /\ m.w.totalTokensReceived[u] = totalTokensReceived[u] + tokensPerRequest
                  /\ m.w.totalDistributedToday = TotalAfterReset + tokensPerRequest
                  /\ m.w.balances = balances
             /\ r.outcome = "ok" =>
                  /\ r.w.lastRequestTime = m.w.lastRequestTime
                  /\ r.w.totalTokensReceived = m.w.totalTokensReceived
                  /\ r.w.totalDistributedToday = m.w.totalDistributedToday
                  /\ r.w.balances[u] = balances[u] + tokensPerRequest

\* user1 has been served, the faucet holds a further token, and a
\* withdrawTokens of the administrator, which succeeds when called on its
\* own, fails when it is called while the same operation is at its transfer.
C37_Witness ==
    /\ last = [op |-> "requestTokens", sender |-> "user1", outcome |-> "ok"]
    /\ withdrawTokensCall(World, owner, 1).outcome = "ok"
    /\ withdrawTokensAtTransfer(World, owner, 1).reached
    /\ withdrawTokensCall(withdrawTokensAtTransfer(World, owner, 1).w, owner, 1).outcome
          = "ReentrantCall"

\* ---------------------------------------------------------------------- C38
\* The kinds of record an operation emits.
C38_KindsOf(op) ==
    CASE op = "requestTokens" -> {"DailyLimitReset", "TokensRequested"}
      [] op = "batchDistribute" -> {"TokensRequested"}
      [] op = "resetDailyLimit" -> {"DailyLimitReset"}
      [] op = "withdrawTokens" -> {"TokensWithdrawn"}
      [] op = "emergencyWithdraw" -> {"EmergencyWithdraw"}
      [] OTHER -> {}

\* The timestamp a record carries, when it carries one.
C38_Stamped(rec) == rec[1] \in {"DailyLimitReset", "TokensRequested"}
C38_Stamp(rec) == IF rec[1] = "DailyLimitReset" THEN rec[2] ELSE rec[4]

\* C38: a successful requestTokens that triggers the implicit reset emits
\* DailyLimitReset(now, previousTotal) first and
\* TokensRequested(caller, tokensPerRequest, now) second and nothing else,
\* and the same now is stored in epochStart and lastRequestTime[caller].  The
\* records of a run are in the order of its operations: each step emits the
\* records of the operation that executes in it and of no other, a failed
\* operation none, the records carry the time of their step, and time does
\* not decrease.
C38_OrderOfRecords ==
    [][ /\ (IsCall("requestTokens") /\ Succeeds /\ EpochOver) =>
             /\ logs' = << <<"DailyLimitReset", now, totalDistributedToday>>,
                           <<"TokensRequested", last'.sender, tokensPerRequest, now>> >>
             /\ lastResetTime' = now
             /\ lastRequestTime'[last'.sender] = now
        /\ (IsCall("requestTokens") /\ Succeeds /\ ~EpochOver) =>
             logs' = << <<"TokensRequested", last'.sender, tokensPerRequest, now>> >>
        /\ \A i \in 1..Len(logs') :
             /\ logs'[i][1] \in C38_KindsOf(last'.op)
             /\ C38_Stamped(logs'[i]) => C38_Stamp(logs'[i]) = now'
        /\ ~Succeeds => logs' = <<>>
        /\ now' >= now ]_vars

\* The owner was served on the first day; a day later user1 has been served
\* by a request that reset the epoch, and the two records of the call carry
\* the time stored in epochStart and in lastRequestTime of user1.
C38_Witness ==
    /\ last = [op |-> "requestTokens", sender |-> "user1", outcome |-> "ok"]
    /\ logs = << <<"DailyLimitReset", now, totalTokensReceived["owner"]>>,
                 <<"TokensRequested", "user1", tokensPerRequest, now>> >>
    /\ totalTokensReceived["owner"] > 0
    /\ lastRequestTime["owner"] < now
    /\ lastResetTime = now
    /\ lastRequestTime["user1"] = now

\* ---------------------------------------------------------------------- C39
\* The sum of the amounts, at position pos, of the records of kind in evs.
RECURSIVE C39_Sum(_, _, _)
C39_Sum(evs, kind, pos) ==
    IF evs = <<>> THEN 0
    ELSE (IF Head(evs)[1] = kind THEN Head(evs)[pos] ELSE 0)
         + C39_Sum(Tail(evs), kind, pos)

\* What the faucet receives in a step: the amount of a deposit, or what the
\* sender of a direct transfer gives up.
C39_Received ==
    IF IsCall("transfer") THEN balances[last'.sender] - balances'[last'.sender]
    ELSE C39_Sum(logs', "TokensDeposited", 3)

\* What the faucet pays in a step, by the records of requestTokens and
\* batchDistribute, of withdrawTokens and of emergencyWithdraw.
C39_Paid ==
    C39_Sum(logs', "TokensRequested", 3) + C39_Sum(logs', "TokensWithdrawn", 3)
    + C39_Sum(logs', "EmergencyWithdraw", 3)

\* All tokens of the ledger in state with balances b.
C39_Total(b) == b["owner"] + b["user1"] + b[Relay] + b[FAUCET]

\* C39: the faucet's ledger balance is what it received by deposits and
\* direct funding minus what successful requestTokens, batchDistribute,
\* withdrawTokens and emergencyWithdraw of the primary token paid: it is zero
\* after construction, each step changes it by exactly the amount received
\* less the amount paid, and a failed operation leaves every balance; no
\* operation pays more than the faucet holds, the ledger conserves the
\* balances, and requestTokens never succeeds with a faucet balance below
\* tokensPerRequest.
C39_CustodyConservation ==
    /\ [](last.op = "constructor" => balances[FAUCET] = 0)
    /\ [](balances[FAUCET] >= 0)
    /\ [][ /\ balances'[FAUCET] = balances[FAUCET] + C39_Received - C39_Paid
           /\ C39_Paid <= balances[FAUCET]
           /\ C39_Received >= 0
           /\ C39_Total(balances') = C39_Total(balances)
           /\ ~Succeeds => balances' = balances
           /\ (IsCall("requestTokens") /\ Succeeds) =>
                /\ balances[FAUCET] >= tokensPerRequest
                /\ C39_Paid = tokensPerRequest ]_vars

\* The faucet was funded by a deposit or a direct transfer, user1 was paid
\* by a request, and the administrator has withdrawn the rest.
C39_Witness ==
    /\ last.op \in {"withdrawTokens", "emergencyWithdraw"}
    /\ last.outcome = "ok"
    /\ totalTokensReceived["user1"] > 0
    /\ balances["user1"] = totalTokensReceived["user1"]
    /\ balances[FAUCET] = 0
    /\ balances["owner"] = InitialSupply - balances["user1"]

====
